---- MODULE Spec2Model ----
(***************************************************************************)
(* vgm2spc (rust): the VGM -> SPC transcoding pipeline.                    *)
(*   bytestream.rs       ByteStream, the cursor buffer                     *)
(*   vgm/specification.rs the command table                                *)
(*   codec/psgcodec.rs, codec/nullcodec.rs  the two codecs                 *)
(*   converter.rs        Converter::preprocess and Converter::convert      *)
(* Bytes are integers 0..255; a ByteStream is [data |-> Seq(byte),         *)
(* pos |-> Nat] with the source's 0-based positions.                       *)
(***************************************************************************)
EXTENDS Integers, Sequences, FiniteSets, TLC

VARIABLES
    pc,                 \* where the run stands
    input_data,         \* the bytes read_vgm_file delivered (never changed)
    codec_used,         \* Converter.codec_used
    input_stream,       \* convert's input_stream (raw, later the reduced stream)
    preprocessed_data,  \* preprocess's preprocessed_data
    loop_offset,        \* Converter.loop_offset
    ym_ch3_mode,        \* preprocess's ym_ch3_mode
    codec,              \* the boxed codec, with the output stream it borrows
    new_loop_offset,    \* convert's new_loop_offset
    extradata_block,    \* convert's extradata_block
    gd3_strings,        \* Converter.song_title, game_title, artist
    seed_cmd,           \* a directly driven codec: the command its warm-up repeats
    seed_left,          \* a directly driven codec: commands of the warm-up still to feed
    calls,              \* history: the calls made on a directly driven codec after the warm-up
    loop_records,       \* history: how often preprocess recorded the loop position
    loop_len_at_record, \* history: the reduced length when the raw cursor stood on the loop target
    boundary_len,       \* history: flushed output length when the reduced cursor stood on the translated loop position
    raw_output,         \* flags.contains(RAW_OUTPUT)
    player_len,         \* the length of the player binary (0 with RAW_OUTPUT)
    output_file,        \* what has reached the output file
    loop_flushes,       \* history: how often the encoding loop flushed at its loop test
    overflow_checks,    \* the build: usize arithmetic panics on overflow (TRUE) or wraps
    run,                \* 0: a single run; 1, 2: the first and the second of two runs compared
    history,            \* history: the states this run went through (when run > 0)
    first_history       \* history: the states the first of two runs went through

vars == <<pc, input_data, codec_used, input_stream, preprocessed_data, loop_offset,
          ym_ch3_mode, codec, new_loop_offset, extradata_block, gd3_strings,
          seed_cmd, seed_left, calls,
          loop_records, loop_len_at_record, boundary_len,
          raw_output, player_len, output_file, loop_flushes,
          overflow_checks, run, history, first_history>>

(***************************************************************************)
(* Bounds of the model.                                                    *)
(***************************************************************************)
MaxCalls == 6
MaxCmds == 2

(***************************************************************************)
(* Integer helpers for the fixed-width arithmetic of the source.           *)
(***************************************************************************)
RECURSIVE BitOr(_, _)
BitOr(a, b) ==
    IF a = 0 THEN b
    ELSE IF b = 0 THEN a
    ELSE (IF a % 2 = 1 \/ b % 2 = 1 THEN 1 ELSE 0) + 2 * BitOr(a \div 2, b \div 2)

RECURSIVE BitAnd(_, _)
BitAnd(a, b) ==
    IF a = 0 \/ b = 0 THEN 0
    ELSE (IF a % 2 = 1 /\ b % 2 = 1 THEN 1 ELSE 0) + 2 * BitAnd(a \div 2, b \div 2)

RECURSIVE Pow2(_)
Pow2(n) == IF n = 0 THEN 1 ELSE 2 * Pow2(n - 1)

Shl(a, n, w) == (a * Pow2(n)) % Pow2(w)
Shr(a, n) == a \div Pow2(n)

RECURSIVE Repeat(_, _)
Repeat(b, n) == IF n <= 0 THEN <<>> ELSE <<b>> \o Repeat(b, n - 1)

(***************************************************************************)
(* vgm/specification.rs: the command constants and the argument table.     *)
(***************************************************************************)
UNDEFINED == 0
NOP == 78
GG_STEREO == 79
PSG_WRITE == 80
YM2413_WRITE == 81
YM2612_LO_WRITE == 82
YM2612_HI_WRITE == 83
YM2151_WRITE == 84
WAIT_LONG == 97
END_OF_SOUND_DATA == 102
DATA_BLOCK == 103
WAIT_1 == 112
YM2612_WRITE_LO_WAIT_0 == 128
YM2612_WRITE_LO_WAIT_15 == 143
WAIT_LONG_THRU_LUT == 144
SEEK_PCM == 224

\* Variant: the stereo command loses its argument.
num_argument_bytes_NoStereo(cmd) ==
    IF cmd = PSG_WRITE THEN 1
    ELSE IF cmd >= YM2413_WRITE /\ cmd <= YM2612_HI_WRITE THEN 2
    ELSE IF cmd = WAIT_LONG THEN 2
    ELSE IF cmd = SEEK_PCM THEN 4
    ELSE 0

\* specification.rs 26-34
num_argument_bytes(cmd) ==
    IF cmd = GG_STEREO \/ cmd = PSG_WRITE THEN 1
    ELSE IF cmd >= YM2413_WRITE /\ cmd <= YM2612_HI_WRITE THEN 2
    ELSE IF cmd = WAIT_LONG THEN 2
    ELSE IF cmd = SEEK_PCM THEN 4
    ELSE 0

(***************************************************************************)
(* bytestream.rs.  An access outside the data is a panic in the source;    *)
(* the callers below test CanRead/CanPeek before they use an operator.     *)
(***************************************************************************)
BsNew(bytes) == [data |-> bytes, pos |-> 0]
BsAvailable(bs) == Len(bs.data) - bs.pos
BsLen(bs) == Len(bs.data)
BsInRange(bs, off) == bs.pos + off < Len(bs.data)
BsPeekAt(bs, off) == bs.data[bs.pos + off + 1]
BsPeek(bs) == BsPeekAt(bs, 0)
BsPeekU32At(bs, off) ==
    BsPeekAt(bs, off) + 256 * BsPeekAt(bs, off + 1)
        + 65536 * BsPeekAt(bs, off + 2) + 16777216 * BsPeekAt(bs, off + 3)
BsReplaceAt(bs, off, val) == [bs EXCEPT !.data[bs.pos + off + 1] = val]
BsReplaceU32At(bs, off, val) ==
    [bs EXCEPT !.data =
        [i \in 1..Len(bs.data) |->
            IF i = bs.pos + off + 1 THEN val % 256
            ELSE IF i = bs.pos + off + 2 THEN Shr(val, 8) % 256
            ELSE IF i = bs.pos + off + 3 THEN Shr(val, 16) % 256
            ELSE IF i = bs.pos + off + 4 THEN Shr(val, 24) % 256
            ELSE bs.data[i]]]
BsReset(bs) == [bs EXCEPT !.pos = 0]
BsSkip(bs, n) == [bs EXCEPT !.pos = bs.pos + n]
BsSlice(bs, n) == SubSeq(bs.data, bs.pos + 1, bs.pos + n)
BsRest(bs) == SubSeq(bs.data, bs.pos + 1, Len(bs.data))
BsAtEnd(bs) == [bs EXCEPT !.pos = Len(bs.data)]
BsWrite(bs, val) == [bs EXCEPT !.data = Append(bs.data, val)]
BsWriteN(bs, s) == [bs EXCEPT !.data = bs.data \o s]

(***************************************************************************)
(* codec/psgcodec.rs and codec/nullcodec.rs.  A codec is a record; its     *)
(* field output is the ByteStream the codec borrows (convert's             *)
(* output_stream).  kind selects the implementation of the Codec trait.    *)
(***************************************************************************)
GET_LONG_WAIT_LUT == 0

PsgCodecNew(out) ==
    [kind |-> "PSG_CODEC",
     output |-> out,
     pending_data |-> <<>>,
     long_wait_table |-> <<>>,
     current_command |-> UNDEFINED,
     remaning_argument_bytes |-> 0,
     long_wait_duration |-> 0,
     flags |-> 0,
     num_flags |-> 0]

\* NullCodec holds only its output; the other fields are unused placeholders.
NullCodecNew(out) == [PsgCodecNew(out) EXCEPT !.kind = "NULL_CODEC"]

\* iter().position(|&x| x == d): the first index (0-based) holding d, or -1.
TablePosition(table, d) ==
    IF \E i \in 1..Len(table) : table[i] = d
    THEN (CHOOSE i \in 1..Len(table) :
            table[i] = d /\ \A j \in 1..(i - 1) : table[j] # d) - 1
    ELSE -1

LutCapacity == 16

\* Variant: the uncompressed form with its two duration bytes swapped.
LongWaitEmit_SwappedBytes(cd, duration) ==
    LET pos == TablePosition(cd.long_wait_table, duration) IN
    IF pos >= 0
    THEN [cd EXCEPT !.pending_data = Append(@, BitOr(WAIT_LONG_THRU_LUT, pos))]
    ELSE IF Len(cd.long_wait_table) < LutCapacity
    THEN [cd EXCEPT
            !.pending_data = Append(@, BitOr(WAIT_LONG_THRU_LUT, Len(cd.long_wait_table) % 256)),
            !.long_wait_table = Append(@, duration)]
    ELSE [cd EXCEPT
            !.pending_data = @ \o <<WAIT_LONG, Shr(duration, 8) % 256, BitAnd(duration, 255)>>]

\* Variant: the capacity test off by one (<= 16 instead of < 16).
LongWaitEmit_OffByOneCap(cd, duration) ==
    LET pos == TablePosition(cd.long_wait_table, duration) IN
    IF pos >= 0
    THEN [cd EXCEPT !.pending_data = Append(@, BitOr(WAIT_LONG_THRU_LUT, pos))]
    ELSE IF Len(cd.long_wait_table) <= LutCapacity
    THEN [cd EXCEPT
            !.pending_data = Append(@, BitOr(WAIT_LONG_THRU_LUT, Len(cd.long_wait_table) % 256)),
            !.long_wait_table = Append(@, duration)]
    ELSE [cd EXCEPT
            !.pending_data = @ \o <<WAIT_LONG, BitAnd(duration, 255), Shr(duration, 8) % 256>>]

\* psgcodec.rs 42-56: the second duration byte has arrived.
LongWaitEmit(cd, duration) ==
    LET pos == TablePosition(cd.long_wait_table, duration) IN
    IF pos >= 0
    THEN [cd EXCEPT !.pending_data = Append(@, BitOr(WAIT_LONG_THRU_LUT, pos))]
    ELSE IF Len(cd.long_wait_table) < LutCapacity
    THEN [cd EXCEPT
            !.pending_data = Append(@, BitOr(WAIT_LONG_THRU_LUT, Len(cd.long_wait_table) % 256)),
            !.long_wait_table = Append(@, duration)]
    ELSE [cd EXCEPT
            !.pending_data = @ \o <<WAIT_LONG, BitAnd(duration, 255), Shr(duration, 8) % 256>>]

\* psgcodec.rs 38-60: what handle_argument does with the byte.
HandleArgumentData(cd, arg) ==
    IF cd.current_command = WAIT_LONG
    THEN LET shifted_arg == Shl(arg, (2 - cd.remaning_argument_bytes) * 8, 16)
             duration == BitOr(cd.long_wait_duration, shifted_arg)
             c1 == [cd EXCEPT !.long_wait_duration = duration]
         IN  IF cd.remaning_argument_bytes = 1 THEN LongWaitEmit(c1, duration) ELSE c1
    ELSE [cd EXCEPT !.pending_data = Append(@, arg)]

\* psgcodec.rs 37-67
handle_argument(cd, arg) ==
    LET c1 == HandleArgumentData(cd, arg)
        c2 == IF c1.remaning_argument_bytes > 0
              THEN [c1 EXCEPT !.remaning_argument_bytes = @ - 1]
              ELSE c1
    IN  IF c2.remaning_argument_bytes = 0
        THEN [c2 EXCEPT !.current_command = UNDEFINED]
        ELSE c2

\* Variant: a flush that does not pad the unfilled slots.
PsgFlush_NoPadding(cd) ==
    IF cd.num_flags > 0
    THEN [cd EXCEPT
            !.output = BsWriteN(BsWrite(cd.output, cd.flags), cd.pending_data),
            !.pending_data = <<>>,
            !.flags = 0,
            !.num_flags = 0]
    ELSE cd

\* psgcodec.rs 128-140
PsgFlush(cd) ==
    IF cd.num_flags > 0
    THEN LET padded == cd.pending_data \o Repeat(NOP, 8 - cd.num_flags)
         IN  [cd EXCEPT
                !.output = BsWriteN(BsWrite(cd.output, cd.flags), padded),
                !.pending_data = <<>>,
                !.flags = 0,
                !.num_flags = 0]
    ELSE cd

\* Variant: the full-batch test off by one (> 8 instead of == 8).
FlushIfFull_OffByOne(cd) == IF cd.num_flags > 8 THEN PsgFlush(cd) ELSE cd

\* psgcodec.rs 112-114: a new command finds the batch full.
FlushIfFull(cd) == IF cd.num_flags = 8 THEN PsgFlush(cd) ELSE cd

\* Variant: the flag bit of a PSG write is set one slot too high.
NewCommand_FlagBitOffByOne(cd, c) ==
    LET c1 == [cd EXCEPT !.current_command = c,
                         !.remaning_argument_bytes = num_argument_bytes(c)]
        c2 == IF c = PSG_WRITE
              THEN [c1 EXCEPT !.flags = BitOr(@, Shl(1, c1.num_flags + 1, 8))]
              ELSE IF c = WAIT_LONG
              THEN [c1 EXCEPT !.long_wait_duration = 0]
              ELSE [c1 EXCEPT !.pending_data = Append(@, c)]
    IN  [c2 EXCEPT !.num_flags = @ + 1]

\* psgcodec.rs 116-124: the new command takes its slot.
NewCommand(cd, c) ==
    LET c1 == [cd EXCEPT !.current_command = c,
                         !.remaning_argument_bytes = num_argument_bytes(c)]
        c2 == IF c = PSG_WRITE
              THEN [c1 EXCEPT !.flags = BitOr(@, Shl(1, c1.num_flags, 8))]
              ELSE IF c = WAIT_LONG
              THEN [c1 EXCEPT !.long_wait_duration = 0]
              ELSE [c1 EXCEPT !.pending_data = Append(@, c)]
    IN  [c2 EXCEPT !.num_flags = @ + 1]

\* Variant: a write that flushes as soon as the 8th command is complete.
PsgWrite_EagerFlush(cd, c) ==
    LET r == IF cd.remaning_argument_bytes > 0
             THEN handle_argument(cd, c)
             ELSE NewCommand(FlushIfFull(cd), c)
    IN  IF r.num_flags = 8 /\ r.remaning_argument_bytes = 0 THEN PsgFlush(r) ELSE r

\* psgcodec.rs 107-126
PsgWrite(cd, c) ==
    IF cd.remaning_argument_bytes > 0
    THEN handle_argument(cd, c)
    ELSE NewCommand(FlushIfFull(cd), c)

\* nullcodec.rs 19-25
NullWrite(cd, c) == [cd EXCEPT !.output = BsWrite(@, c)]

\* The Codec trait's methods, dispatched on the boxed implementation.
\* (the receiver is a value: it is bound once, then the method runs on it)
CodecWrite(cd, c) ==
    CHOOSE r \in {IF self.kind = "PSG_CODEC" THEN PsgWrite(self, c) ELSE NullWrite(self, c) :
                     self \in {cd}} : TRUE
CodecFlush(cd) ==
    CHOOSE r \in {IF self.kind = "PSG_CODEC" THEN PsgFlush(self) ELSE self :
                     self \in {cd}} : TRUE
CodecOutputLen(cd) == BsLen(cd.output)

LutHeader == <<DATA_BLOCK, 102, 2, 32, 0, 0, 0>>

\* Variant: the slots written high byte first.
LutBlock_BigEndian(table) ==
    [k \in 1..39 |->
        IF k <= 7 THEN LutHeader[k]
        ELSE LET i == (k - 8) \div 2 IN
             IF i < Len(table)
             THEN (IF (k - 8) % 2 = 0 THEN Shr(table[i + 1], 8) % 256
                                      ELSE BitAnd(table[i + 1], 255))
             ELSE 0]

\* psgcodec.rs 87-92: the table block; slot i (0-based) is bytes 7+2i, 7+2i+1.
LutBlock(table) ==
    [k \in 1..39 |->
        IF k <= 7 THEN LutHeader[k]
        ELSE LET i == (k - 8) \div 2 IN
             IF i < Len(table)
             THEN (IF (k - 8) % 2 = 0 THEN BitAnd(table[i + 1], 255)
                                      ELSE Shr(table[i + 1], 8) % 256)
             ELSE 0]

\* get_extra_data returns Option<Vec<u8>>
None == [some |-> FALSE, value |-> <<>>]
Some(v) == [some |-> TRUE, value |-> v]
PsgGetExtraData(cd, what) ==
    IF what = GET_LONG_WAIT_LUT THEN Some(LutBlock(cd.long_wait_table)) ELSE None
NullGetExtraData(cd, what) == None
CodecGetExtraData(cd, what) ==
    IF cd.kind = "PSG_CODEC" THEN PsgGetExtraData(cd, what) ELSE NullGetExtraData(cd, what)

NewCodec(kind, out) ==
    IF kind = "PSG_CODEC" THEN PsgCodecNew(out) ELSE NullCodecNew(out)

(***************************************************************************)
(* A codec driven call by call, as the unit tests of psgcodec.rs drive it. *)
(* The driver first feeds a warm-up, either long waits with pairwise       *)
(* distinct durations 0x1231 .. 0x1240 (opcode, lo, hi) or PSG writes      *)
(* 0x50 0x12, then makes up to MaxCalls calls of its choice: write(c), or  *)
(* flush (recorded as FLUSH).                                              *)
(***************************************************************************)
FLUSH == -1
NoFile == [created |-> FALSE, prefix_len |-> 0, image |-> <<>>, padding |-> 0]
NoStrings == [song_title |-> <<>>, game_title |-> <<>>, artist |-> <<>>]
Seeds == {<<WAIT_LONG, 0>>, <<WAIT_LONG, 15>>, <<WAIT_LONG, 16>>,
          <<PSG_WRITE, 7>>, <<PSG_WRITE, 8>>}
SeedLo(n) == 48 + n
SeedDuration(n) == SeedLo(n) + 256 * 18
CallBytes == {PSG_WRITE, WAIT_LONG, 18, 52}
Selectors == {0, 1, 2}

CodecInit ==
    /\ pc = "codec"
    /\ input_data = <<>>
    /\ codec_used \in {"NULL_CODEC", "PSG_CODEC"}
    /\ input_stream = BsNew(<<>>)
    /\ preprocessed_data = BsNew(<<>>)
    /\ loop_offset = 0
    /\ ym_ch3_mode = 0
    /\ codec = NewCodec(codec_used, BsNew(<<>>))
    /\ new_loop_offset = 0
    /\ extradata_block = <<>>
    /\ gd3_strings = NoStrings
    /\ \E sd \in Seeds : seed_cmd = sd[1] /\ seed_left = sd[2]
    /\ calls = <<>>
    /\ loop_records = 0
    /\ loop_len_at_record = 0
    /\ boundary_len = 0
    /\ raw_output = TRUE
    /\ player_len = 0
    /\ output_file = NoFile
    /\ loop_flushes = 0
    /\ overflow_checks = FALSE
    /\ run = 0
    /\ history = <<>>
    /\ first_history = <<>>

UnchangedPipeline ==
    UNCHANGED <<pc, input_data, codec_used, input_stream, preprocessed_data,
                loop_offset, ym_ch3_mode, new_loop_offset, extradata_block, gd3_strings,
                loop_records, loop_len_at_record, boundary_len,
                raw_output, player_len, output_file, loop_flushes,
                overflow_checks, run, history, first_history>>

\* The warm-up: one whole command, a long wait's duration not fed before.
FeedSeed ==
    /\ pc = "codec"
    /\ seed_left > 0
    /\ codec' = IF seed_cmd = WAIT_LONG
                THEN CodecWrite(CodecWrite(CodecWrite(codec, WAIT_LONG),
                                           SeedLo(seed_left)), 18)
                ELSE CodecWrite(CodecWrite(codec, PSG_WRITE), 18)
    /\ seed_left' = seed_left - 1
    /\ UNCHANGED <<seed_cmd, calls>>
    /\ UnchangedPipeline

Write(c) ==
    /\ pc = "codec"
    /\ seed_left = 0
    /\ Len(calls) < MaxCalls
    /\ codec' = CodecWrite(codec, c)
    /\ calls' = Append(calls, c)
    /\ UNCHANGED <<seed_cmd, seed_left>>
    /\ UnchangedPipeline

Flush ==
    /\ pc = "codec"
    /\ seed_left = 0
    /\ Len(calls) < MaxCalls
    /\ codec' = CodecFlush(codec)
    /\ calls' = Append(calls, FLUSH)
    /\ UNCHANGED <<seed_cmd, seed_left>>
    /\ UnchangedPipeline

CodecNext ==
    \/ FeedSeed
    \/ \E c \in CallBytes : Write(c)
    \/ Flush

CodecSpec == CodecInit /\ [][CodecNext]_vars

\* The dictionary codec after seven PSG writes, driven with one opcode of
\* every argument count of the command table.
WideBytes == {GG_STEREO, PSG_WRITE, YM2612_LO_WRITE, WAIT_LONG, SEEK_PCM, 18}
WideInit == CodecInit /\ codec_used = "PSG_CODEC" /\ seed_cmd = PSG_WRITE /\ seed_left = 7
WideNext ==
    \/ FeedSeed
    \/ \E c \in WideBytes : Write(c)
    \/ Flush
WideSpec == WideInit /\ [][WideNext]_vars
(***************************************************************************)
(* converter.rs: the header as convert reads it (a packed little-endian    *)
(* struct laid over the first bytes of the input).                         *)
(***************************************************************************)
U32At(data, off) ==
    data[off + 1] + 256 * data[off + 2] + 65536 * data[off + 3] + 16777216 * data[off + 4]
LE32(v) == <<v % 256, (v \div 256) % 256, (v \div 65536) % 256, (v \div 16777216) % 256>>

HeaderVersion == U32At(input_data, 8)
HeaderGd3Offset == U32At(input_data, 20)
HeaderLoopOffset == U32At(input_data, 28)
HeaderVgmDataOffset == U32At(input_data, 48)

MinDataOffset == 64
VersionWithDataOffset == 336
LoopAnchor == 28

\* converter.rs 52-56
data_offset ==
    IF HeaderVersion >= VersionWithDataOffset
    THEN (IF HeaderVgmDataOffset > MinDataOffset THEN HeaderVgmDataOffset ELSE MinDataOffset)
    ELSE MinDataOffset

(***************************************************************************)
(* Converter::preprocess, one iteration of its loop as an operator on      *)
(* [is: the raw stream, pd: preprocessed_data, mode: ym_ch3_mode].         *)
(* The result carries panic (an index out of range or the panic! of the    *)
(* data-block arm) and eod.                                                *)
(***************************************************************************)
PreResult(is, pd, mode, eod) == [panic |-> FALSE, is |-> is, pd |-> pd, mode |-> mode, eod |-> eod]
PrePanic(is, pd, mode) == [panic |-> TRUE, is |-> is, pd |-> pd, mode |-> mode, eod |-> FALSE]

\* n reads, each written to pd (converter.rs 304-306, 347-349, 356-358)
CopyN(is, pd, n) == [is |-> BsSkip(is, n), pd |-> BsWriteN(pd, BsSlice(is, n))]

\* Variant: the whole value, not its upper two bits, is compared and kept.
PreYm2612Lo_WholeValue(c, is, pd, mode) ==
    IF BsAvailable(is) < 2 THEN PrePanic(is, pd, mode)
    ELSE LET arg1 == BsPeekAt(is, 0)
             arg2 == BsPeekAt(is, 1)
             is2 == BsSkip(is, 2)
         IN  IF arg1 = 39
             THEN (IF arg2 # mode
                   THEN PreResult(is2, BsWriteN(pd, <<c, arg1, arg2>>), arg2, FALSE)
                   ELSE PreResult(is2, pd, mode, FALSE))
             ELSE IF arg1 = 37 \/ arg1 = 38
             THEN PreResult(is2, pd, mode, FALSE)
             ELSE PreResult(is2, BsWriteN(pd, <<c, arg1, arg2>>), mode, FALSE)

\* converter.rs 276-293
PreYm2612Lo(c, is, pd, mode) ==
    IF BsAvailable(is) < 2 THEN PrePanic(is, pd, mode)
    ELSE LET arg1 == BsPeekAt(is, 0)
             arg2 == BsPeekAt(is, 1)
             is2 == BsSkip(is, 2)
         IN  IF arg1 = 39
             THEN (IF Shr(arg2, 6) # mode
                   THEN PreResult(is2, BsWriteN(pd, <<c, arg1, arg2>>), Shr(arg2, 6), FALSE)
                   ELSE PreResult(is2, pd, mode, FALSE))
             ELSE IF arg1 = 37 \/ arg1 = 38
             THEN PreResult(is2, pd, mode, FALSE)
             ELSE PreResult(is2, BsWriteN(pd, <<c, arg1, arg2>>), mode, FALSE)

\* Variant: the data block's tag byte is not looked at.
PreDataBlock_AnyTag(c, is, pd, mode) ==
    IF ~BsInRange(is, 5) THEN PrePanic(is, pd, mode)
    ELSE LET data_block_size == BsPeekU32At(is, 2) IN
         IF BsAvailable(is) < data_block_size + 6 THEN PrePanic(is, pd, mode)
         ELSE LET r == CopyN(is, BsWrite(pd, c), data_block_size + 6)
              IN  PreResult(r.is, r.pd, mode, FALSE)

\* converter.rs 300-310
PreDataBlock(c, is, pd, mode) ==
    IF ~BsInRange(is, 0) THEN PrePanic(is, pd, mode)
    ELSE IF BsPeek(is) # 102 THEN PrePanic(is, pd, mode)
    ELSE IF ~BsInRange(is, 5) THEN PrePanic(is, pd, mode)
    ELSE LET data_block_size == BsPeekU32At(is, 2) IN
         IF BsAvailable(is) < data_block_size + 6 THEN PrePanic(is, pd, mode)
         ELSE LET r == CopyN(is, BsWrite(pd, c), data_block_size + 6)
              IN  PreResult(r.is, r.pd, mode, FALSE)

\* converter.rs 316-322: the merge loop; panic when a peek runs off the data.
RECURSIVE MergeFollowing(_, _)
MergeFollowing(is, wait) ==
    IF ~BsInRange(is, 0) THEN [panic |-> TRUE, is |-> is, wait |-> wait]
    ELSE IF BitAnd(BsPeek(is), 240) = WAIT_1 /\ wait + BitAnd(BsPeek(is), 15) + 1 < 16
    THEN MergeFollowing(BsSkip(is, 1), wait + BitAnd(BsPeek(is), 15) + 1)
    ELSE [panic |-> FALSE, is |-> is, wait |-> wait]

\* converter.rs 325-337: the last written byte is looked at
MergeIntoLast(pd, wait) ==
    LET last == pd.data[Len(pd.data)] IN
    IF BitAnd(last, 240) = WAIT_1
    THEN LET merged == IF wait + BitAnd(last, 15) + 1 < 16
                       THEN wait + BitAnd(last, 15) + 1 ELSE wait
             last_index == Len(pd.data) - 1
         IN  BsSkip(BsReplaceAt(BsSkip(BsReset(pd), last_index), 0, BitOr(128, merged)), 1)
    ELSE BsWrite(pd, BitOr(128, wait))

\* converter.rs 312-341
PreWriteLoWait(c, is, pd, mode) ==
    LET wait == BitAnd(c, 15) IN
    IF ~BsInRange(is, 0) THEN PrePanic(is, pd, mode)
    ELSE IF BitAnd(BsPeek(is), 240) = WAIT_1
    THEN LET m == MergeFollowing(is, wait) IN
         IF m.panic THEN PrePanic(m.is, pd, mode)
         ELSE PreResult(m.is, BsWrite(pd, BitOr(128, m.wait)), mode, FALSE)
    ELSE IF Len(pd.data) > 0
    THEN PreResult(is, MergeIntoLast(pd, wait), mode, FALSE)
    ELSE PreResult(is, BsWrite(pd, BitOr(128, wait)), mode, FALSE)

\* converter.rs 343-352: a dropped seek leaves its four argument bytes unread
PreSeekPcm(c, is, pd, mode) ==
    IF ~BsInRange(is, 3) THEN PrePanic(is, pd, mode)
    ELSE LET pcm_offset == BsPeekU32At(is, 0) IN
         IF pcm_offset # 0 /\ codec_used = "NULL_CODEC"
         THEN LET r == CopyN(is, BsWrite(pd, c), 4) IN PreResult(r.is, r.pd, mode, FALSE)
         ELSE PreResult(is, pd, mode, FALSE)

\* converter.rs 354-359
PreDefault(c, is, pd, mode) ==
    IF BsAvailable(is) < num_argument_bytes(c) THEN PrePanic(is, pd, mode)
    ELSE LET r == CopyN(is, BsWrite(pd, c), num_argument_bytes(c))
         IN  PreResult(r.is, r.pd, mode, FALSE)

\* Variant: the command byte is looked at and left in the stream.
PreCommand_PeeksCommand(is0, pd, mode) ==
    IF ~BsInRange(is0, 0) THEN PrePanic(is0, pd, mode)
    ELSE LET c == BsPeek(is0)
             is == is0
         IN  IF c = YM2612_LO_WRITE THEN PreYm2612Lo(c, is, pd, mode)
             ELSE IF c = END_OF_SOUND_DATA THEN PreResult(is, BsWrite(pd, c), mode, TRUE)
             ELSE IF c = DATA_BLOCK THEN PreDataBlock(c, is, pd, mode)
             ELSE IF c >= YM2612_WRITE_LO_WAIT_0 /\ c <= YM2612_WRITE_LO_WAIT_15
                  THEN PreWriteLoWait(c, is, pd, mode)
             ELSE IF c = SEEK_PCM THEN PreSeekPcm(c, is, pd, mode)
             ELSE PreDefault(c, is, pd, mode)

\* converter.rs 273-360: read c and match on it
PreCommand(is0, pd, mode) ==
    IF ~BsInRange(is0, 0) THEN PrePanic(is0, pd, mode)
    ELSE LET c == BsPeek(is0)
             is == BsSkip(is0, 1)
         IN  IF c = YM2612_LO_WRITE THEN PreYm2612Lo(c, is, pd, mode)
             ELSE IF c = END_OF_SOUND_DATA THEN PreResult(is, BsWrite(pd, c), mode, TRUE)
             ELSE IF c = DATA_BLOCK THEN PreDataBlock(c, is, pd, mode)
             ELSE IF c >= YM2612_WRITE_LO_WAIT_0 /\ c <= YM2612_WRITE_LO_WAIT_15
                  THEN PreWriteLoWait(c, is, pd, mode)
             ELSE IF c = SEEK_PCM THEN PreSeekPcm(c, is, pd, mode)
             ELSE PreDefault(c, is, pd, mode)

(***************************************************************************)
(* The encoding loop of convert (converter.rs 82-127), one iteration as an *)
(* operator on [is: the reduced stream, cd: the codec].                    *)
(***************************************************************************)
RECURSIVE WriteAll(_, _)
WriteAll(cd, bytes) ==
    IF bytes = <<>> THEN cd ELSE WriteAll(CodecWrite(cd, Head(bytes)), Tail(bytes))

\* n times codec.write(input_stream.read())
FeedN(is, cd, n) ==
    IF BsAvailable(is) < n
    THEN [panic |-> TRUE, is |-> is, cd |-> cd, eod |-> FALSE]
    ELSE [panic |-> FALSE, is |-> BsSkip(is, n), cd |-> WriteAll(cd, BsSlice(is, n)),
          eod |-> FALSE]

\* converter.rs 111-120
EncDataBlock(is, cd) ==
    IF ~BsInRange(is, 0) \/ (BsInRange(is, 0) /\ BsPeek(is) # 102) \/ ~BsInRange(is, 5)
    THEN [panic |-> TRUE, is |-> is, cd |-> cd, eod |-> FALSE]
    ELSE FeedN(is, cd, BsPeekU32At(is, 2) + 6)

\* Variant: the end marker flushes the codec without being written to it.
EncCommand_EndMarkerNotWritten(is0, cd0) ==
    IF ~BsInRange(is0, 0) THEN [panic |-> TRUE, is |-> is0, cd |-> cd0, eod |-> FALSE]
    ELSE LET c == BsPeek(is0)
             is == BsSkip(is0, 1)
             cd == IF c = END_OF_SOUND_DATA THEN cd0 ELSE CodecWrite(cd0, c)
         IN  IF c = GG_STEREO \/ c = PSG_WRITE \/ c = 48 THEN FeedN(is, cd, 1)
             ELSE IF c >= YM2413_WRITE /\ c <= YM2151_WRITE THEN FeedN(is, cd, 2)
             ELSE IF c = WAIT_LONG THEN FeedN(is, cd, 2)
             ELSE IF c = END_OF_SOUND_DATA
                  THEN [panic |-> FALSE, is |-> is, cd |-> CodecFlush(cd), eod |-> TRUE]
             ELSE IF c = DATA_BLOCK THEN EncDataBlock(is, cd)
             ELSE IF c = SEEK_PCM THEN FeedN(is, cd, 4)
             ELSE [panic |-> FALSE, is |-> is, cd |-> cd, eod |-> FALSE]

\* converter.rs 88-126
EncCommand(is0, cd0) ==
    IF ~BsInRange(is0, 0) THEN [panic |-> TRUE, is |-> is0, cd |-> cd0, eod |-> FALSE]
    ELSE LET c == BsPeek(is0)
             is == BsSkip(is0, 1)
             cd == CodecWrite(cd0, c)
         IN  IF c = GG_STEREO \/ c = PSG_WRITE \/ c = 48 THEN FeedN(is, cd, 1)
             ELSE IF c >= YM2413_WRITE /\ c <= YM2151_WRITE THEN FeedN(is, cd, 2)
             ELSE IF c = WAIT_LONG THEN FeedN(is, cd, 2)
             ELSE IF c = END_OF_SOUND_DATA
                  THEN [panic |-> FALSE, is |-> is, cd |-> CodecFlush(cd), eod |-> TRUE]
             ELSE IF c = DATA_BLOCK THEN EncDataBlock(is, cd)
             ELSE IF c = SEEK_PCM THEN FeedN(is, cd, 4)
             ELSE [panic |-> FALSE, is |-> is, cd |-> cd, eod |-> FALSE]

\* converter.rs 83-86: the flush at the loop boundary
EncLoopFlush(is, cd) ==
    IF is.pos = HeaderLoopOffset THEN CodecFlush(cd) ELSE cd

(***************************************************************************)
(* The inputs: a 64-byte header, a command stream, an optional trailer.    *)
(***************************************************************************)
Magic == <<86, 103, 109, 32>>
MakeHeader(total_len, gd3, loop, last) ==
    Magic \o LE32(total_len - 4) \o LE32(336) \o LE32(3579545) \o LE32(0)
          \o LE32(gd3) \o LE32(44100) \o LE32(loop) \o LE32(60)
          \o <<9, 0, 16, 0>> \o LE32(7670453) \o LE32(0) \o LE32(12)
          \o <<0, 0, 0, 0, 0, 0, 0, 0, 0, 0, 0>> \o <<last>>

RECURSIVE Flatten(_)
Flatten(ss) == IF ss = <<>> THEN <<>> ELSE Head(ss) \o Flatten(Tail(ss))

SeqsUpTo(S, n) == UNION {[1..k -> S] : k \in 0..n}

\* The header points at the trailer when there is one (a GD3 block).
MakeInput(body, trailer, loop, last) ==
    MakeHeader(64 + Len(body) + Len(trailer),
               IF trailer = <<>> THEN 0 ELSE 64 + Len(body) - 20,
               loop, last) \o body \o trailer

Fresh == NullCodecNew(BsNew(<<>>))

PipelineInitR(Vocab, n, Enders, Trailers, Loops, Lasts, Players, r) ==
    /\ pc = "start"
    /\ \E cmds \in SeqsUpTo(Vocab, n), ender \in Enders, trailer \in Trailers,
          loop \in Loops, last \in Lasts :
          input_data = MakeInput(Flatten(cmds) \o ender, trailer, loop, last)
    /\ codec_used \in {"NULL_CODEC", "PSG_CODEC"}
    /\ input_stream = BsNew(<<>>)
    /\ preprocessed_data = BsNew(<<>>)
    /\ loop_offset = 0
    /\ ym_ch3_mode = 0
    /\ codec = Fresh
    /\ new_loop_offset = 0
    /\ extradata_block = <<>>
    /\ gd3_strings = NoStrings
    /\ seed_cmd = 0
    /\ seed_left = 0
    /\ calls = <<>>
    /\ loop_records = 0
    /\ loop_len_at_record = -1
    /\ boundary_len = -1
    /\ \E pl \in Players : raw_output = pl[1] /\ player_len = pl[2]
    /\ output_file = NoFile
    /\ loop_flushes = 0
    /\ overflow_checks \in BOOLEAN
    /\ run = r
    /\ history = <<>>
    /\ first_history = <<>>

PipelineInitN(Vocab, n, Enders, Trailers, Loops, Lasts, Players) ==
    PipelineInitR(Vocab, n, Enders, Trailers, Loops, Lasts, Players, 0)

PipelineInit(Vocab, Enders, Trailers, Loops, Lasts, Players) ==
    PipelineInitN(Vocab, MaxCmds, Enders, Trailers, Loops, Lasts, Players)

\* The run's inputs and the codec driver's bookkeeping
UnchangedDriver ==
    UNCHANGED <<input_data, codec_used, seed_cmd, seed_left, calls, raw_output, player_len,
                overflow_checks, run, first_history>>

\* What a run shows of itself after a step
Snapshot ==
    <<pc, input_stream, preprocessed_data, loop_offset, ym_ch3_mode, codec,
      new_loop_offset, extradata_block, gd3_strings, output_file>>

\* The step is added to the history of a run that is compared with another
Recorded == history' = IF run > 0 THEN Append(history, Snapshot') ELSE history

\* converter.rs 58-68 and 261-264: up to the first iteration of preprocess
Begin ==
    /\ pc = "start"
    /\ IF Len(input_data) < data_offset
       THEN /\ pc' = "panic"
            /\ UNCHANGED <<input_stream, preprocessed_data, loop_offset>>
       ELSE /\ pc' = "preprocess"
            /\ input_stream' = BsSkip(BsNew(input_data), data_offset)
            /\ preprocessed_data' = BsNew(SubSeq(input_data, 1, data_offset))
            /\ loop_offset' = (HeaderLoopOffset + LoopAnchor)
    /\ ym_ch3_mode' = 0
    /\ UNCHANGED <<codec, new_loop_offset, extradata_block, gd3_strings, loop_records,
                   loop_len_at_record, boundary_len, output_file, loop_flushes>>
    /\ UnchangedDriver
    /\ Recorded

\* converter.rs 268-361: one iteration of the elimination loop, and on the
\* end marker the copy of the trailing bytes (362-364).
PreprocessStep ==
    /\ pc = "preprocess"
    /\ LET at_loop == input_stream.pos = HeaderLoopOffset + LoopAnchor
           r == PreCommand(input_stream, preprocessed_data, ym_ch3_mode)
       IN  /\ loop_offset' = IF at_loop THEN BsLen(preprocessed_data) ELSE loop_offset
           /\ loop_records' = IF at_loop THEN loop_records + 1 ELSE loop_records
           /\ loop_len_at_record' = IF at_loop THEN BsLen(preprocessed_data)
                                    ELSE loop_len_at_record
           /\ IF r.panic
              THEN /\ pc' = "panic"
                   /\ UNCHANGED <<input_stream, preprocessed_data, ym_ch3_mode>>
              ELSE /\ ym_ch3_mode' = r.mode
                   /\ IF r.eod
                      THEN /\ pc' = "preprocessed"
                           /\ input_stream' = BsAtEnd(r.is)
                           /\ preprocessed_data' = BsWriteN(r.pd, BsRest(r.is))
                      ELSE /\ pc' = "preprocess"
                           /\ input_stream' = r.is
                           /\ preprocessed_data' = r.pd
    /\ UNCHANGED <<codec, new_loop_offset, extradata_block, gd3_strings, boundary_len,
                   output_file, loop_flushes>>
    /\ UnchangedDriver
    /\ Recorded

\* converter.rs 68-81: the reduced stream replaces input_stream, its first
\* data_offset bytes (from its cursor on) open the output, the codec is made.
EncodeBegin ==
    /\ pc = "preprocessed"
    /\ IF BsAvailable(preprocessed_data) < data_offset
       THEN /\ pc' = "panic"
            /\ UNCHANGED <<input_stream, codec, new_loop_offset>>
       ELSE /\ pc' = "encode"
            /\ input_stream' = BsSkip(preprocessed_data, data_offset)
            /\ codec' = NewCodec(codec_used,
                            BsReplaceAt(BsNew(BsSlice(preprocessed_data, data_offset)), 8, 82))
            /\ new_loop_offset' = loop_offset
    /\ UNCHANGED <<preprocessed_data, loop_offset, ym_ch3_mode, extradata_block,
                   gd3_strings, loop_records, loop_len_at_record, boundary_len,
                   output_file, loop_flushes>>
    /\ UnchangedDriver
    /\ Recorded

\* converter.rs 82-127: one iteration of the encoding loop, and on the end
\* marker the dictionary block and the end-of-data field (129-134).
EncodeStep ==
    /\ pc = "encode"
    /\ LET cd0 == EncLoopFlush(input_stream, codec)
           r == EncCommand(input_stream, cd0)
           lut == CodecGetExtraData(r.cd, GET_LONG_WAIT_LUT)
           block == IF lut.some THEN lut.value ELSE extradata_block
       IN  /\ new_loop_offset' = IF input_stream.pos = HeaderLoopOffset
                                 THEN CodecOutputLen(cd0) ELSE new_loop_offset
           /\ boundary_len' = IF loop_records > 0 /\ input_stream.pos = loop_offset
                              THEN CodecOutputLen(CodecFlush(cd0)) ELSE boundary_len
           /\ loop_flushes' = IF input_stream.pos = HeaderLoopOffset
                              THEN loop_flushes + 1 ELSE loop_flushes
           /\ IF r.panic
              THEN /\ pc' = "panic"
                   /\ UNCHANGED <<input_stream, codec, extradata_block>>
              ELSE /\ input_stream' = r.is
                   /\ IF r.eod
                      THEN /\ pc' = "encoded"
                           /\ extradata_block' = block
                           /\ codec' = [r.cd EXCEPT !.output =
                                  BsReplaceU32At(@, 4,
                                      (BsLen(r.cd.output) + Len(block) - 4))]
                      ELSE /\ pc' = "encode"
                           /\ codec' = r.cd
                           /\ UNCHANGED extradata_block
    /\ UNCHANGED <<preprocessed_data, loop_offset, ym_ch3_mode, gd3_strings,
                   loop_records, loop_len_at_record, output_file>>
    /\ UnchangedDriver
    /\ Recorded

(***************************************************************************)
(* The assembly (converter.rs 136-164).  usize arithmetic that leaves the  *)
(* range panics in a build with overflow checks and wraps in one without;  *)
(* a wrapped value is kept here as the negative number it is congruent to  *)
(* (the model's values stay far below 2^31).                               *)
(***************************************************************************)
Gd3Done(bs, str) == [panic |-> FALSE, bs |-> bs, str |-> str]
Gd3Panic(bs, str) == [panic |-> TRUE, bs |-> bs, str |-> str]
\* available() underflows, or the peek it guards leaves the data
CursorOutside(bs) == bs.pos < 0 \/ bs.pos > Len(bs.data)

\* converter.rs 249-255
RECURSIVE Gd3ReadChars(_, _, _)
Gd3ReadChars(bs, n, str) ==
    IF n = 0 THEN Gd3Done(bs, str)
    ELSE IF CursorOutside(bs) THEN Gd3Panic(bs, str)
    ELSE IF BsAvailable(bs) = 0 THEN Gd3Done(bs, str)
    ELSE IF BsPeek(bs) = 0 THEN Gd3Done(bs, str)
    ELSE Gd3ReadChars(BsSkip(bs, 2), n - 1, Append(str, BsPeek(bs)))

\* converter.rs 256
RECURSIVE Gd3SkipToTerminator(_)
Gd3SkipToTerminator(bs) ==
    IF CursorOutside(bs) THEN Gd3Panic(bs, <<>>)
    ELSE IF BsAvailable(bs) # 0 /\ BsPeek(bs) # 0 THEN Gd3SkipToTerminator(BsSkip(bs, 2))
    ELSE Gd3Done(bs, <<>>)

\* converter.rs 248-258
read_gd3_string(bs, str) ==
    LET r == Gd3ReadChars(bs, 32, str) IN
    IF r.panic THEN r
    ELSE LET t == Gd3SkipToTerminator(r.bs) IN
         IF t.panic THEN Gd3Panic(t.bs, r.str)
         ELSE Gd3Done(BsSkip(t.bs, 2), r.str)

RECURSIVE ReadGd3Strings_SixReads(_, _, _)
ReadGd3Strings_SixReads(bs, k, got) ==
    IF k > 6 THEN [panic |-> FALSE, bs |-> bs, got |-> got]
    ELSE LET r == read_gd3_string(bs, <<>>) IN
         IF r.panic THEN [panic |-> TRUE, bs |-> r.bs, got |-> got]
         ELSE ReadGd3Strings_SixReads(r.bs, k + 1,
                  IF k = 1 THEN [got EXCEPT !.song_title = @ \o r.str]
                  ELSE IF k = 3 THEN [got EXCEPT !.game_title = @ \o r.str]
                  ELSE IF k = 6 THEN [got EXCEPT !.artist = @ \o r.str]
                  ELSE got)

\* converter.rs 148-154: seven reads; the 1st, 3rd and 7th are kept
RECURSIVE ReadGd3Strings(_, _, _)
ReadGd3Strings(bs, k, got) ==
    IF k > 7 THEN [panic |-> FALSE, bs |-> bs, got |-> got]
    ELSE LET r == read_gd3_string(bs, <<>>) IN
         IF r.panic THEN [panic |-> TRUE, bs |-> r.bs, got |-> got]
         ELSE ReadGd3Strings(r.bs, k + 1,
                  IF k = 1 THEN [got EXCEPT !.song_title = @ \o r.str]
                  ELSE IF k = 3 THEN [got EXCEPT !.game_title = @ \o r.str]
                  ELSE IF k = 7 THEN [got EXCEPT !.artist = @ \o r.str]
                  ELSE got)

\* converter.rs 143: gd3_offset -= input_size - (output_stream.len() + extradata_block.len())
Gd3Delta(out) == Len(input_data) - (BsLen(out) + Len(extradata_block))
Gd3Overflows(out) ==
    \/ Gd3Delta(out) < 0
    \/ HeaderGd3Offset - Gd3Delta(out) < 0
    \/ HeaderGd3Offset - Gd3Delta(out) + 32 - Len(extradata_block) < 0

\* converter.rs 136-158: the trailer is appended, the GD3 field patched and
\* the tag strings read.
CopyTrailer ==
    /\ pc = "encoded"
    /\ LET out == BsWriteN(codec.output, BsRest(input_stream))
           gd3_offset == HeaderGd3Offset - Gd3Delta(out)
           patched == BsReplaceU32At(out, 20, gd3_offset)
           r == ReadGd3Strings(BsSkip(patched, gd3_offset + 32 - Len(extradata_block)),
                               1, gd3_strings)
       IN  /\ input_stream' = BsAtEnd(input_stream)
           /\ IF HeaderGd3Offset = 0
              THEN /\ pc' = "tagged"
                   /\ codec' = [codec EXCEPT !.output = out]
                   /\ UNCHANGED gd3_strings
              ELSE    IF (overflow_checks /\ Gd3Overflows(out)) \/ r.panic
                      THEN /\ pc' = "panic"
                           /\ UNCHANGED <<codec, gd3_strings>>
                      ELSE /\ pc' = "tagged"
                           /\ codec' = [codec EXCEPT !.output = BsReset(r.bs)]
                           /\ gd3_strings' = r.got
    /\ UNCHANGED <<preprocessed_data, loop_offset, ym_ch3_mode, new_loop_offset,
                   extradata_block, loop_records, loop_len_at_record, boundary_len,
                   output_file, loop_flushes>>
    /\ UnchangedDriver
    /\ Recorded

\* converter.rs 160-164
PatchLoop ==
    /\ pc = "tagged"
    /\ pc' = "assembled"
    /\ IF loop_offset > LoopAnchor
       THEN /\ new_loop_offset' = new_loop_offset + Len(extradata_block) - LoopAnchor
            /\ codec' = [codec EXCEPT !.output =
                   BsReplaceU32At(@, 28, new_loop_offset + Len(extradata_block) - LoopAnchor)]
       ELSE UNCHANGED <<codec, new_loop_offset>>
    /\ UNCHANGED <<input_stream, preprocessed_data, loop_offset, ym_ch3_mode,
                   extradata_block, gd3_strings, loop_records, loop_len_at_record,
                   boundary_len, output_file, loop_flushes>>
    /\ UnchangedDriver
    /\ Recorded

\* converter.rs 208-211: the assembled image as it is written out
FinalImage ==
    SubSeq(codec.output.data, 1, data_offset) \o extradata_block
        \o SubSeq(codec.output.data, data_offset + 1, Len(codec.output.data))

(***************************************************************************)
(* The output stage (converter.rs 166-228).  File and player I/O succeed.  *)
(***************************************************************************)
MaxImageWindow == 65472
SpcRam == 65536
SpcHeaderLen == 256
SpcTestIndex == 240

\* converter.rs 173-175: the Error value is built and dropped; the only
\* effect of the test is its subtraction, which leaves the usize range when
\* the player is longer than the window.
SizeCheckOverflows == player_len > MaxImageWindow

\* converter.rs 166-228
WriteOutput ==
    /\ pc = "assembled"
    /\    LET image == FinalImage
              used == IF player_len < SpcRam THEN player_len ELSE SpcRam
              prefix == IF raw_output THEN 0 ELSE SpcHeaderLen + used
              remain == (IF raw_output THEN SpcRam ELSE SpcRam - used) - Len(image)
          IN  IF overflow_checks /\ SizeCheckOverflows
              THEN /\ pc' = "panic"
                   /\ UNCHANGED output_file
              ELSE IF ~raw_output /\ player_len = SpcTestIndex
              THEN \* 202: player[0xF0] on a player of exactly 0xF0 bytes
                   /\ pc' = "panic"
                   /\ output_file' = [created |-> TRUE, prefix_len |-> SpcHeaderLen,
                                      image |-> <<>>, padding |-> 0]
              ELSE IF remain < 0 /\ (overflow_checks \/ ~raw_output)
              THEN \* 212 panics, or wraps and the padding of 217 cannot be allocated
                   /\ pc' = "panic"
                   /\ output_file' = [created |-> TRUE, prefix_len |-> prefix,
                                      image |-> image, padding |-> 0]
              ELSE /\ pc' = "done"
                   /\ output_file' = [created |-> TRUE, prefix_len |-> prefix,
                                      image |-> image,
                                      padding |-> IF raw_output THEN 0
                                                  ELSE remain + SpcHeaderLen]
    /\ UNCHANGED <<input_stream, preprocessed_data, loop_offset, ym_ch3_mode, codec,
                   new_loop_offset, extradata_block, gd3_strings, loop_records,
                   loop_len_at_record, boundary_len, loop_flushes>>
    /\ UnchangedDriver
    /\ Recorded

Next ==
    \/ Begin
    \/ PreprocessStep
    \/ EncodeBegin
    \/ EncodeStep
    \/ CopyTrailer
    \/ PatchLoop
    \/ WriteOutput

\* main.rs 56-57 once more: the program is started again on the same input
\* file with the same options; a new Converter (titles empty) and new locals.
RerunWith(titles) ==
    /\ pc \in {"done", "panic"}
    /\ run = 1
    /\ run' = 2
    /\ first_history' = history
    /\ history' = <<>>
    /\ pc' = "start"
    /\ input_stream' = BsNew(<<>>)
    /\ preprocessed_data' = BsNew(<<>>)
    /\ loop_offset' = 0
    /\ ym_ch3_mode' = 0
    /\ codec' = Fresh
    /\ new_loop_offset' = 0
    /\ extradata_block' = <<>>
    /\ gd3_strings' = titles
    /\ loop_records' = 0
    /\ loop_len_at_record' = -1
    /\ boundary_len' = -1
    /\ output_file' = NoFile
    /\ loop_flushes' = 0
    /\ UNCHANGED <<input_data, codec_used, seed_cmd, seed_left, calls, raw_output,
                   player_len, overflow_checks>>

Rerun_KeepsTitles == RerunWith(gd3_strings)
Rerun ==
    RerunWith(NoStrings)

DetNext ==
    \/ Next
    \/ Rerun

\* A GD3 block: "Gd3 ", version, length, then the strings T, -, G, -, -, -, A.
Gd3Tail ==
    <<71, 100, 51, 32, 0, 1, 0, 0, 20, 0, 0, 0,
      84, 0, 0, 0, 0, 0, 71, 0, 0, 0, 0, 0, 0, 0, 0, 0, 65, 0, 0, 0>>

EndMarker == <<END_OF_SOUND_DATA>>
Vocab ==
    {<<PSG_WRITE, 18>>, <<PSG_WRITE, 52>>, <<113>>, <<127>>, <<129>>, <<143>>,
     <<WAIT_LONG, 52, 18>>, <<YM2612_LO_WRITE, 37, 1>>}
Loops == {0} \cup 36..42 \cup {64, 66}

\* The player binary of a default run (no -raw)
DefaultPlayer == <<FALSE, 1024>>

Init == PipelineInit(Vocab, {EndMarker}, {<<>>, Gd3Tail}, Loops, {0}, {DefaultPlayer})

Spec == Init /\ [][Next]_vars

\* Streams of YM2612 port-0 register writes (0x52 reg value), among them
\* mode-control writes (reg 0x27) with the upper two bits 00, 01, 01, 10.
MaxRegWrites == 3
YmVocab ==
    {<<YM2612_LO_WRITE, 39, 0>>, <<YM2612_LO_WRITE, 39, 64>>, <<YM2612_LO_WRITE, 39, 65>>,
     <<YM2612_LO_WRITE, 39, 128>>, <<YM2612_LO_WRITE, 37, 1>>, <<YM2612_LO_WRITE, 38, 2>>,
     <<YM2612_LO_WRITE, 40, 3>>, <<PSG_WRITE, 18>>}
InitYm == PipelineInitN(YmVocab, MaxRegWrites, {EndMarker}, {<<>>}, {0}, {0}, {DefaultPlayer})
SpecYm == InitYm /\ [][Next]_vars

\* Streams with PCM seeks (0xE0 and a 4-byte destination: 0, 1, 0x66).
SeekVocab ==
    {<<SEEK_PCM, 0, 0, 0, 0>>, <<SEEK_PCM, 1, 0, 0, 0>>, <<SEEK_PCM, 102, 0, 0, 0>>,
     <<PSG_WRITE, 18>>}
InitSeek == PipelineInit(SeekVocab, {EndMarker}, {<<>>}, {0}, {0}, {DefaultPlayer})
SpecSeek == InitSeek /\ [][Next]_vars

\* Streams that may be malformed: a data block with the tag 0x01, and streams
\* that end without an end marker or inside a command's arguments.
BadVocab ==
    {<<PSG_WRITE, 18>>, <<WAIT_LONG, 52, 18>>, <<DATA_BLOCK, 1, 0, 0, 0, 0, 0>>,
     <<DATA_BLOCK, 102, 0, 1, 0, 0, 0, 9>>}
BadEnders ==
    {EndMarker, <<>>, <<PSG_WRITE>>, <<WAIT_LONG, 52>>, <<DATA_BLOCK>>,
     <<DATA_BLOCK, 102, 0>>, <<DATA_BLOCK, 102, 0, 2, 0, 0, 0, 9>>,
     <<YM2612_LO_WRITE, 39>>, <<SEEK_PCM, 1, 0>>, <<129>>}
InitBad == PipelineInit(BadVocab, BadEnders, {<<>>}, {0}, {0}, {DefaultPlayer})
SpecBad == InitBad /\ [][Next]_vars

\* Streams with short waits whose end marker is followed by 64 bytes that
\* the header does not declare as a GD3 block (63 bytes 0x09 and a 0x66): as
\* many bytes as a header.
LongTail == Repeat(9, 63) \o EndMarker
LongVocab == {<<113>>, <<129>>, <<PSG_WRITE, 18>>}
InitLong ==
    PipelineInitN(LongVocab, 3, {EndMarker, EndMarker \o LongTail}, {<<>>},
                  {0, 64, 65}, {0}, {DefaultPlayer})
SpecLong == InitLong /\ [][Next]_vars

\* Runs with -raw (no player), with the default player, with a player of
\* exactly 0xF0 bytes and with a player that leaves a window of 22 bytes.
Players == {<<TRUE, 0>>, DefaultPlayer, <<FALSE, SpcTestIndex>>, <<FALSE, MaxImageWindow - 22>>}
PlayerVocab == {<<PSG_WRITE, 18>>, <<113>>}
InitPlayer == PipelineInit(PlayerVocab, {EndMarker}, {<<>>, Gd3Tail}, {0}, {0}, Players)
SpecPlayer == InitPlayer /\ [][Next]_vars

\* Two runs of the program on one input: long waits (dictionary entries),
\* mode-control writes, short waits, with and without a GD3 block and a loop.
DetVocab ==
    {<<WAIT_LONG, 52, 18>>, <<WAIT_LONG, 0, 1>>, <<YM2612_LO_WRITE, 39, 64>>,
     <<PSG_WRITE, 18>>, <<113>>, <<129>>}
DetInit ==
    PipelineInitR(DetVocab, MaxCmds, {EndMarker}, {<<>>, Gd3Tail}, {0, 38}, {0},
                  {<<TRUE, 0>>, DefaultPlayer}, 1)
DetSpec == DetInit /\ [][DetNext]_vars

\* GD3 blocks: the twelve bytes "Gd3 ", version and length, then strings of
\* two-byte characters (low byte, then hi), each closed by 00 and one byte.
Gd3String(str, hi) == Flatten([i \in 1..Len(str) |-> <<str[i], hi>>]) \o <<0, hi>>
Gd3Block(strs, hi) ==
    SubSeq(Gd3Tail, 1, 12) \o Flatten([k \in 1..Len(strs) |-> Gd3String(strs[k], hi)])
\* eleven strings as a GD3 block holds them; the 7th is the author
Gd3Named ==
    Gd3Block(<<<<84, 105>>, <<74>>, <<71>>, <<75>>, <<83>>, <<90>>, <<65, 117>>,
               <<66>>, <<68>>, <<82>>, <<78>>>>, 1)
\* a title of 34 characters
Gd3LongTitle ==
    Gd3Block(<<[i \in 1..34 |-> 64 + i], <<>>, <<71>>, <<>>, <<>>, <<>>, <<65>>>>, 0)
\* a block that ends inside its third string
Gd3Cut == SubSeq(Gd3Named, 1, 23)
Gd3Vocab == {<<PSG_WRITE, 18>>, <<WAIT_LONG, 52, 18>>, <<YM2612_LO_WRITE, 37, 1>>}
InitGd3 ==
    PipelineInit(Gd3Vocab, {EndMarker}, {<<>>, Gd3Tail, Gd3Named, Gd3LongTitle, Gd3Cut},
                 {0}, {0}, {DefaultPlayer})
SpecGd3 == InitGd3 /\ [][Next]_vars

\* Streams with data blocks (tag 0x66, type 0) of one or two payload bytes,
\* among them 0x50, 0x61 and 0xE0.
DataBlockOf(payload) == <<DATA_BLOCK, 102, 0>> \o LE32(Len(payload)) \o payload
BlockVocab ==
    {DataBlockOf(<<9>>), DataBlockOf(<<PSG_WRITE>>), DataBlockOf(<<WAIT_LONG, 9>>),
     DataBlockOf(<<SEEK_PCM>>), <<PSG_WRITE, 18>>}
InitBlock == PipelineInit(BlockVocab, {EndMarker}, {<<>>}, {0}, {0}, {DefaultPlayer})
SpecBlock == InitBlock /\ [][Next]_vars

\* Streams with the opcodes 0x30 and 0x54, followed by the operands a VGM
\* file gives them or by nothing.
TableVocab == {<<48>>, <<48, 18>>, <<YM2151_WRITE, 32, 1>>, <<PSG_WRITE, 18>>}
InitTable ==
    PipelineInit(TableVocab, {EndMarker}, {<<>>, Gd3Tail}, {0}, {0}, {DefaultPlayer})
SpecTable == InitTable /\ [][Next]_vars

\* Streams in which a 0x8n follows a byte 0x7m that is a short wait, the
\* argument of a PSG write, or the last byte of the header.
ArgVocab == {<<PSG_WRITE, 113>>, <<PSG_WRITE, 18>>, <<113>>, <<129>>, <<143>>}
InitArg == PipelineInit(ArgVocab, {EndMarker}, {<<>>}, {0}, {0, 113}, {DefaultPlayer})
SpecArg == InitArg /\ [][Next]_vars

\* Well-formed, malformed and exhausted streams without a GD3 block, run to
\* their end: convert is one sequential call, so a step that can be taken is
\* taken.
LiveVocab == {<<PSG_WRITE, 18>>, <<WAIT_LONG, 52, 18>>, <<129>>, DataBlockOf(<<9>>)}
LiveEnders ==
    {EndMarker, EndMarker \o <<9, 9>>, <<>>, <<WAIT_LONG, 52>>, <<DATA_BLOCK, 1, 0>>,
     <<DATA_BLOCK, 102, 0, 2, 0, 0, 0, 9>>}
LiveInit ==
    PipelineInitN(LiveVocab, 2, LiveEnders, {<<>>}, {0, 38}, {0}, {DefaultPlayer})
LiveSpec == LiveInit /\ [][Next]_vars /\ WF_vars(Next)

(***************************************************************************)
(* The byte stream driven directly (bytestream.rs): input_stream is the    *)
(* stream, every call is one step, a call that panics ends the run.        *)
(***************************************************************************)
MaxBufLen == 4
MaxCursor == 6
CursorBytes == {0, 65}
CursorBuffers == {<<>>, <<65, 0>>, <<65, 0, 0, 0>>}

\* bytestream.rs 7-9: ByteStream::new
CursorInit ==
    /\ pc = "cursor"
    /\ input_data = <<>>
    /\ codec_used = "NULL_CODEC"
    /\ input_stream \in {BsNew(d) : d \in CursorBuffers}
    /\ preprocessed_data = BsNew(<<>>)
    /\ loop_offset = 0
    /\ ym_ch3_mode = 0
    /\ codec = NewCodec(codec_used, BsNew(<<>>))
    /\ new_loop_offset = 0
    /\ extradata_block = <<>>
    /\ gd3_strings = NoStrings
    /\ seed_cmd = PSG_WRITE
    /\ seed_left = 0
    /\ calls = <<>>
    /\ loop_records = 0
    /\ loop_len_at_record = 0
    /\ boundary_len = 0
    /\ raw_output = TRUE
    /\ player_len = 0
    /\ output_file = NoFile
    /\ loop_flushes = 0
    /\ overflow_checks \in BOOLEAN
    /\ run = 0
    /\ history = <<>>
    /\ first_history = <<>>

UnchangedButStream ==
    UNCHANGED <<input_data, codec_used, preprocessed_data, loop_offset, ym_ch3_mode, codec,
                new_loop_offset, extradata_block, gd3_strings, seed_cmd, seed_left, calls,
                loop_records, loop_len_at_record, boundary_len, raw_output, player_len,
                output_file, loop_flushes, overflow_checks, run, history, first_history>>

\* A call on the stream: it returns with the stream as `after`, or it panics.
CursorCall(completes, after) ==
    /\ pc = "cursor"
    /\ IF completes
       THEN /\ input_stream' = after
            /\ pc' = "cursor"
       ELSE /\ pc' = "panic"
            /\ UNCHANGED input_stream
    /\ UnchangedButStream

\* bytestream.rs 60-64: data[pos] is bounds-checked
CursorRead == CursorCall(BsInRange(input_stream, 0), BsSkip(input_stream, 1))

\* bytestream.rs 67-71: the slice data[pos..pos+n] is range-checked
CursorReadN(n) ==
    CursorCall(input_stream.pos + n <= BsLen(input_stream), BsSkip(input_stream, n))

\* bytestream.rs 74-78: the slice data[pos..] is range-checked
CursorReadAvailable ==
    CursorCall(input_stream.pos <= BsLen(input_stream), BsAtEnd(input_stream))

\* bytestream.rs 86-88: pos += n, no test against the length
CursorSkip(n) ==
    /\ input_stream.pos + n <= MaxCursor
    /\ CursorCall(TRUE, BsSkip(input_stream, n))

\* bytestream.rs 55-57
CursorReset == CursorCall(TRUE, BsReset(input_stream))

\* bytestream.rs 91-93
CursorWrite(val) ==
    /\ BsLen(input_stream) < MaxBufLen
    /\ CursorCall(TRUE, BsWrite(input_stream, val))

\* bytestream.rs 96-98
CursorWriteN(s) ==
    /\ BsLen(input_stream) + Len(s) <= MaxBufLen
    /\ CursorCall(TRUE, BsWriteN(input_stream, s))

\* bytestream.rs 42-44: data[pos + pos_offset] is bounds-checked
CursorReplaceAt(off, val) ==
    CursorCall(BsInRange(input_stream, off),
               IF BsInRange(input_stream, off) THEN BsReplaceAt(input_stream, off, val)
               ELSE input_stream)

\* converter.rs 248-258: read_gd3_string on the stream
CursorReadGd3String ==
    LET r == read_gd3_string(input_stream, <<>>)
    IN  CursorCall(~r.panic, r.bs)

CursorNext ==
    \/ CursorRead
    \/ \E n \in 0..2 : CursorReadN(n)
    \/ CursorReadAvailable
    \/ \E n \in 1..2 : CursorSkip(n)
    \/ CursorReset
    \/ \E val \in CursorBytes : CursorWrite(val)
    \/ \E s \in {<<65, 0>>, <<0, 0>>} : CursorWriteN(s)
    \/ \E off \in 0..1, val \in CursorBytes : CursorReplaceAt(off, val)
    \/ CursorReadGd3String

CursorSpec == CursorInit /\ [][CursorNext]_vars

(***************************************************************************)
(* Properties of the directly driven codec (CodecSpec).                    *)
(***************************************************************************)
IsPsg == codec.kind = "PSG_CODEC"
WriteStep(c) == pc = "codec" /\ calls' = Append(calls, c)
FlushStep == pc = "codec" /\ calls' = Append(calls, FLUSH)
WritesOf(cs) == SelectSeq(cs, LAMBDA x : x # FLUSH)
LastWrite == WritesOf(calls)[Len(WritesOf(calls))]
InTable(table, d) == \E i \in 1..Len(table) : table[i] = d
IndexOf(table, d) == CHOOSE i \in 1..Len(table) : table[i] = d
EndsWith(sq, suffix) ==
    /\ Len(sq) >= Len(suffix)
    /\ SubSeq(sq, Len(sq) - Len(suffix) + 1, Len(sq)) = suffix

\* What a long wait of duration lo | hi<<8 must append to the payload, and
\* what the table must become, by the three cases of the claim.
LongWaitPayload(table, lo, hi) ==
    LET d == lo + 256 * hi IN
    IF InTable(table, d) THEN <<144 + (IndexOf(table, d) - 1)>>
    ELSE IF Len(table) < 16 THEN <<144 + Len(table)>>
    ELSE <<97, lo, hi>>
LongWaitTable(table, lo, hi) ==
    LET d == lo + 256 * hi IN
    IF ~InTable(table, d) /\ Len(table) < 16 THEN Append(table, d) ELSE table

C3_OpcodeStep ==
    (codec.remaning_argument_bytes = 0 /\ WriteStep(WAIT_LONG)) =>
        /\ codec'.num_flags = (IF codec.num_flags = 8 THEN 1 ELSE codec.num_flags + 1)
        /\ codec'.pending_data = (IF codec.num_flags = 8 THEN <<>> ELSE codec.pending_data)
        /\ codec'.long_wait_table = codec.long_wait_table
C3_FirstArgStep ==
    \A lo \in CallBytes :
        (codec.current_command = WAIT_LONG /\ codec.remaning_argument_bytes = 2
            /\ WriteStep(lo)) =>
            /\ codec'.num_flags = codec.num_flags
            /\ codec'.pending_data = codec.pending_data
            /\ codec'.long_wait_table = codec.long_wait_table
C3_SecondArgStep ==
    \A hi \in CallBytes :
        (codec.current_command = WAIT_LONG /\ codec.remaning_argument_bytes = 1
            /\ WriteStep(hi)) =>
            /\ codec'.num_flags = codec.num_flags
            /\ codec'.pending_data = codec.pending_data
                    \o LongWaitPayload(codec.long_wait_table, LastWrite, hi)
            /\ codec'.long_wait_table = LongWaitTable(codec.long_wait_table, LastWrite, hi)
            /\ codec'.output = codec.output
\* A warm-up long wait is a whole command with a duration not seen before.
C3_WholeCommandStep ==
    (pc = "codec" /\ seed_cmd = WAIT_LONG /\ seed_left' = seed_left - 1) =>
        /\ codec'.long_wait_table = Append(codec.long_wait_table, SeedDuration(seed_left))
        /\ EndsWith(codec'.pending_data, <<144 + Len(codec.long_wait_table)>>)
        /\ codec'.num_flags = (IF codec.num_flags = 8 THEN 1 ELSE codec.num_flags + 1)

\* C3: in the dictionary codec a long wait 0x61 lo hi is emitted as 0x90|index
\* when its duration lo | hi<<8 is in the table (existing index) or the table
\* has room (next index, first-seen order), and as the three bytes 0x61 lo hi
\* when the table already holds 16 other durations, the table then unchanged;
\* the command takes exactly one batch slot and buffers nothing before its
\* second argument byte.
C3_LongWaitDictionary ==
    [][IsPsg => (C3_OpcodeStep /\ C3_FirstArgStep /\ C3_SecondArgStep
                    /\ C3_WholeCommandStep)]_vars

\* C3 witness: with 16 durations in the table a 17th one (0x3412) has just
\* been emitted uncompressed, after a long wait that hit the table.
C3_Witness ==
    /\ IsPsg
    /\ Len(codec.long_wait_table) = 16
    /\ calls = <<WAIT_LONG, 52, 18, WAIT_LONG, 18, 52>>
    /\ EndsWith(codec.pending_data, <<144 + 12, 97, 18, 52>>)

Distinct(table) ==
    \A i, j \in 1..Len(table) : i # j => table[i] # table[j]
IsPrefix(a, b) == Len(a) <= Len(b) /\ SubSeq(b, 1, Len(a)) = a

\* C4: the wait-duration dictionary never holds more than 16 entries, its
\* entries are pairwise distinct, and it is append-only: every step leaves
\* the old table as a prefix of the new one.
C4_TableCappedDistinctAppendOnly ==
    /\ [](IsPsg => (Len(codec.long_wait_table) <= 16 /\ Distinct(codec.long_wait_table)))
    /\ [][IsPsg => IsPrefix(codec.long_wait_table, codec'.long_wait_table)]_vars

\* C4 witness: the table is full and a further, new duration has been written.
C4_Witness ==
    /\ IsPsg
    /\ Len(codec.long_wait_table) = 16
    /\ EndsWith(calls, <<WAIT_LONG, 18, 52>>)
    /\ ~InTable(codec.long_wait_table, 18 + 256 * 52)

\* C5: flush with k slots filled, 1 <= k <= 7, appends one flag byte, the
\* buffered payload and 8-k bytes 0x4E, and resets flag byte, slot count and
\* pending payload; flush with no slot filled changes nothing.
C5_ExplicitFlushPads ==
    [][(IsPsg /\ FlushStep) =>
        /\ (codec.num_flags \in 1..7) =>
              /\ codec'.output.data = codec.output.data \o <<codec.flags>>
                      \o codec.pending_data \o Repeat(78, 8 - codec.num_flags)
              /\ codec'.flags = 0
              /\ codec'.num_flags = 0
              /\ codec'.pending_data = <<>>
        /\ (codec.num_flags = 0) => codec' = codec]_vars

\* C5 witness: two PSG writes and a long wait were flushed as flag byte 0b011,
\* three payload entries and five NOPs.
C5_Witness ==
    /\ IsPsg
    /\ seed_cmd = WAIT_LONG /\ Len(codec.long_wait_table) = 0
    /\ calls = <<PSG_WRITE, 18, PSG_WRITE, 52, 18, FLUSH>>
    /\ codec.output.data = <<3, 18, 52, 18, 78, 78, 78, 78, 78>>
    /\ codec.num_flags = 0

FullBatchPending ==
    IsPsg /\ codec.num_flags = 8 /\ codec.remaning_argument_bytes = 0

\* C6 as stated: once the 8th command of a batch is complete the batch is in
\* the output, so no state holds a complete batch of 8 that is still pending.
C6_Original == ~FullBatchPending

\* C6 amended: the write that completes the 8th command of a batch emits
\* nothing (no write emits anything unless it starts a command on a full
\* batch); the full batch stays pending and the next opcode write or flush
\* call appends it as one flag byte plus its payload, with no padding.
C6_FlushOnNextCall ==
    [][IsPsg =>
        /\ \A c \in CallBytes :
              (WriteStep(c) /\ ~(codec.num_flags = 8 /\ codec.remaning_argument_bytes = 0))
                  => codec'.output = codec.output
        /\ (FullBatchPending /\ (FlushStep \/ \E c \in CallBytes : WriteStep(c))) =>
              codec'.output.data = codec.output.data \o <<codec.flags>> \o codec.pending_data]_vars

\* C6 witness: eight PSG writes are complete, nothing has been emitted.
C6_Witness ==
    /\ FullBatchPending
    /\ seed_cmd = PSG_WRITE
    /\ calls = <<PSG_WRITE, 52>>
    /\ codec.output.data = <<>>
    /\ Len(codec.pending_data) = 8

\* C7: an opcode written while the batch holds 8 complete commands first
\* emits that batch (flag byte, payload, no padding) and then takes slot 0 of
\* a fresh batch: slot count 1, flag byte and pending payload of the new
\* command only.
C7_ImplicitFlushOnNewCommand ==
    [][\A c \in CallBytes :
        (FullBatchPending /\ WriteStep(c)) =>
            /\ codec'.output.data = codec.output.data \o <<codec.flags>> \o codec.pending_data
            /\ ~EndsWith(codec'.output.data, <<78>>)
            /\ codec'.num_flags = 1
            /\ codec'.flags = (IF c = PSG_WRITE THEN 1 ELSE 0)
            /\ codec'.pending_data = (IF c = PSG_WRITE \/ c = WAIT_LONG THEN <<>> ELSE <<c>>)]_vars

\* C7 witness: test_implicit_flush, eight PSG writes and a ninth opcode.
C7_Witness ==
    /\ IsPsg
    /\ seed_cmd = PSG_WRITE
    /\ calls = <<PSG_WRITE>>
    /\ codec.output.data = <<255, 18, 18, 18, 18, 18, 18, 18, 18>>
    /\ Len(codec.pending_data) = 0 /\ codec.flags = 1 /\ codec.num_flags = 1

\* C9: the dictionary codec answers selector 0 with 39 bytes, the header
\* 67 66 02 20 00 00 00 and 16 little-endian slots, slot i holding entry i
\* and every unoccupied slot 00 00; it answers any other selector, and the
\* identity codec any selector, with nothing.
C9_ExtraData ==
    pc = "codec" =>
    \A what \in Selectors :
        LET got == CodecGetExtraData(codec, what)
            r == got.value
        IN
        IF IsPsg /\ what = 0
        THEN /\ got.some
             /\ Len(r) = 39
             /\ SubSeq(r, 1, 7) = <<103, 102, 2, 32, 0, 0, 0>>
             /\ \A i \in 0..15 :
                   r[8 + 2 * i] + 256 * r[9 + 2 * i] =
                       (IF i < Len(codec.long_wait_table)
                        THEN codec.long_wait_table[i + 1] ELSE 0)
             /\ \A k \in 1..39 : r[k] \in 0..255
        ELSE ~got.some

\* C9 witness: the long wait 0x1234 written twice gives 0x1234 in slot 0.
C9_Witness ==
    /\ IsPsg
    /\ calls = <<WAIT_LONG, 52, 18, WAIT_LONG, 52, 18>>
    /\ seed_cmd = WAIT_LONG /\ codec.long_wait_table = <<4660>>
    /\ codec.pending_data = <<144, 144>>
    /\ CodecGetExtraData(codec, 0).value = <<103, 102, 2, 32, 0, 0, 0, 52, 18>> \o Repeat(0, 30)

(***************************************************************************)
(* Properties of the pipeline (Spec).                                      *)
(***************************************************************************)
PreprocessDone ==
    pc \in {"preprocessed", "encode", "encoded", "tagged", "assembled", "done"}
LoopTarget == HeaderLoopOffset + 28

\* The raw stream read by the command grammar: an opcode, then the bytes the
\* Command Table gives it (a data block: tag, type, length N, N bytes).
RawCommandLen(p) ==
    IF input_data[p + 1] = 103 THEN 7 + U32At(input_data, p + 3)
    ELSE 1 + num_argument_bytes(input_data[p + 1])

RECURSIVE IsRawOpcodePos(_, _)
IsRawOpcodePos(p, target) ==
    IF p = target THEN p < Len(input_data)
    ELSE IF p > target \/ p >= Len(input_data) \/ input_data[p + 1] = 102 THEN FALSE
    ELSE IsRawOpcodePos(p + RawCommandLen(p), target)

LoopTargetIsOpcode == IsRawOpcodePos(64, LoopTarget)

\* C2: when the loop target is the opcode byte of a raw command, the
\* elimination pass has recorded the translated loop position exactly once,
\* as the reduced stream's length when the raw cursor stood on that byte.
C2_LoopPositionRecordedOnce ==
    (PreprocessDone /\ LoopTargetIsOpcode) =>
        (loop_records = 1 /\ loop_offset = loop_len_at_record)

DictionaryLen == IF codec_used = "PSG_CODEC" THEN 39 ELSE 0

\* C1: with a nonzero header loop offset, the field at 0x1C of the final
\* image is B + D - 0x1C, B the codec's output length after a flush at the
\* moment the encoding pass's cursor stands on the translated loop position,
\* D the dictionary-block length.
C1_LoopFieldFromBoundaryLength ==
    (pc = "assembled" /\ HeaderLoopOffset # 0 /\ boundary_len >= 0) =>
        U32At(FinalImage, 28) = boundary_len + DictionaryLen - 28

RawCommands(n) == SubSeq(input_data, 65, 64 + n)
RawTrailerLen(n) == Len(input_data) - (64 + n)
CompressedBody(n) ==
    SubSeq(codec.output.data, 65, Len(codec.output.data) - RawTrailerLen(n))
C8_Input ==
    /\ pc = "assembled"
    /\ codec_used = "PSG_CODEC"
    /\ Len(input_data) >= 69
    /\ RawCommands(5) = <<80, 18, 80, 52, 102>>
EmptyDictionaryBlock == <<103, 102, 2, 32, 0, 0, 0>> \o Repeat(0, 32)

\* C8 as stated: the body is the flag byte 0b011 and the payload
\* 12 34 NOP NOP NOP NOP NOP NOP, the dictionary block has no occupied slot.
C8_Original ==
    C8_Input =>
        /\ CompressedBody(5) = <<3, 18, 52, 78, 78, 78, 78, 78, 78>>
        /\ extradata_block = EmptyDictionaryBlock

\* C8 amended: for an input without a loop point (header loop offset 0) the
\* body is the flag byte 0b011 and the payload 12 34 66 NOP NOP NOP NOP NOP
\* (the end marker takes the third slot), the dictionary block has no
\* occupied slot.
C8_EndMarkerInPayload ==
    (C8_Input /\ HeaderLoopOffset = 0) =>
        /\ CompressedBody(5) = <<3, 18, 52, 102, 78, 78, 78, 78, 78>>
        /\ extradata_block = EmptyDictionaryBlock

\* C8 witness: the scenario's stream, with a trailer, has been assembled.
C8_Witness ==
    /\ C8_Input
    /\ HeaderLoopOffset = 0
    /\ RawTrailerLen(5) > 0
    /\ Len(FinalImage) = 64 + 39 + 9 + RawTrailerLen(5)

IsShortWait(b) == b >= 112 /\ b <= 143
ReducedCommands(n) ==
    SubSeq(preprocessed_data.data, 65, Len(preprocessed_data.data) - RawTrailerLen(n))
ShortWaitPair ==
    /\ pc = "preprocessed"
    /\ Len(input_data) >= 67
    /\ IsShortWait(input_data[65]) /\ IsShortWait(input_data[66])
    /\ input_data[67] = 102

\* C10 (its capped case): two adjacent short waits with duration fields a, b
\* and a+b+1 >= 16 are two separate short-wait commands with fields a and b
\* in the reduced stream.
C10_CappedPairStaysTwoCommands ==
    LET a == input_data[65] % 16
        b == input_data[66] % 16
        red == ReducedCommands(3)
    IN  (ShortWaitPair /\ a + b + 1 >= 16) =>
            /\ Len(red) = 3
            /\ IsShortWait(red[1]) /\ red[1] % 16 = a
            /\ IsShortWait(red[2]) /\ red[2] % 16 = b
            /\ red[3] = 102

\* The wait a short-wait opcode carries: 0x7n waits n+1 samples, 0x8n waits n.
ShortWaitTime(b) ==
    IF b >= 112 /\ b <= 127 THEN (b % 16) + 1
    ELSE IF b >= 128 /\ b <= 143 THEN b % 16
    ELSE 0

\* The length of the command at p by the Command Table.
CommandLenIn(data, p) ==
    IF data[p + 1] = 103 THEN 7 + U32At(data, p + 3)
    ELSE 1 + num_argument_bytes(data[p + 1])

\* The wait carried by the short-wait commands from p to the end marker.
RECURSIVE WaitTimeFrom(_, _)
WaitTimeFrom(data, p) ==
    IF p >= Len(data) \/ data[p + 1] = 102 THEN 0
    ELSE ShortWaitTime(data[p + 1]) + WaitTimeFrom(data, p + CommandLenIn(data, p))

\* A 0x7m then a 0x8n, n+m+1 >= 16, then the end marker
CappedBackwardPair ==
    /\ pc = "preprocessed"
    /\ Len(input_data) >= 67
    /\ input_data[65] >= 112 /\ input_data[65] <= 127
    /\ input_data[66] >= 128 /\ input_data[66] <= 143
    /\ input_data[67] = 102
    /\ (input_data[65] % 16) + (input_data[66] % 16) + 1 >= 16

\* C11: when a 0x8n follows an emitted 0x7m and n+m+1 >= 16, the 0x7m stays
\* in the reduced stream and the 0x8n starts a new command, so the reduced
\* stream's short waits carry the same total wait as the raw stream's.
C11_CappedMergeKeepsWaitTime ==
    CappedBackwardPair =>
        /\ ReducedCommands(3) = RawCommands(3)
        /\ WaitTimeFrom(preprocessed_data.data, 64) = WaitTimeFrom(input_data, 64)

\* The upper two bits of the last 0x52 0x27 write among the raw commands from
\* q up to (not including) p; acc when there is none.
RECURSIVE Prev27Bits(_, _, _)
Prev27Bits(q, p, acc) ==
    IF q >= p THEN acc
    ELSE Prev27Bits(q + CommandLenIn(input_data, q), p,
                    IF input_data[q + 1] = 82 /\ input_data[q + 2] = 39
                    THEN input_data[q + 3] \div 64 ELSE acc)

C12_RegisterWriteStep ==
    LET p == input_stream.pos
        d == input_stream.data
    IN  (pc = "preprocess" /\ p + 3 <= Len(d) /\ d[p + 1] = 82) =>
            LET reg == d[p + 2]
                val == d[p + 3]
                prev == Prev27Bits(64, p, -1)
                same == preprocessed_data.data
                kept == preprocessed_data.data \o <<82, reg, val>>
                out == preprocessed_data'.data
            IN  /\ pc' = "preprocess"
                /\ input_stream'.pos = p + 3
                /\ IF reg = 39
                   THEN /\ (prev # -1 /\ prev = val \div 64) => out = same
                        /\ (prev # -1 /\ prev # val \div 64) => out = kept
                   ELSE IF reg = 37 \/ reg = 38 THEN out = same
                   ELSE out = kept

\* C12: a 0x52 0x27 write is dropped when its upper two bits equal those of
\* the preceding 0x27 write of the raw stream and kept with its three bytes
\* when they differ; 0x52 writes to 0x25 and 0x26 are dropped; 0x52 writes to
\* any other register are copied with both argument bytes.
C12_RegisterWrites == [][C12_RegisterWriteStep]_vars

\* C12 witness: 27:40, 27:41, 27:80 has been reduced to 27:40, 27:80.
C12_Witness ==
    /\ pc = "preprocessed"
    /\ Len(input_data) = 74
    /\ RawCommands(10) = <<82, 39, 64, 82, 39, 65, 82, 39, 128, 102>>
    /\ ReducedCommands(10) = <<82, 39, 64, 82, 39, 128, 102>>

\* One PCM seek, then the end marker
SingleSeek ==
    /\ pc = "preprocessed"
    /\ Len(input_data) = 70
    /\ input_data[65] = 224
    /\ input_data[70] = 102

\* C13: a PCM seek is copied with its five bytes exactly when its destination
\* is nonzero and the codec is the null codec; otherwise the whole command is
\* dropped and none of its bytes is in the reduced stream.
C13_SeekKeptOrDropped ==
    SingleSeek =>
        ReducedCommands(6) =
            IF U32At(input_data, 65) # 0 /\ codec_used = "NULL_CODEC"
            THEN RawCommands(6) ELSE <<102>>

\* The raw stream from p on holds a data block whose tag is not 0x66, or ends
\* inside a command or before an end marker.
RECURSIVE MalformedFrom(_)
MalformedFrom(p) ==
    IF p >= Len(input_data) THEN TRUE
    ELSE IF input_data[p + 1] = 102 THEN FALSE
    ELSE IF input_data[p + 1] = 103
    THEN (IF p + 1 >= Len(input_data) THEN TRUE
          ELSE IF input_data[p + 2] # 102 THEN TRUE
          ELSE IF p + 7 > Len(input_data) THEN TRUE
          ELSE IF p + 7 + U32At(input_data, p + 3) > Len(input_data) THEN TRUE
          ELSE MalformedFrom(p + 7 + U32At(input_data, p + 3)))
    ELSE IF p + 1 + num_argument_bytes(input_data[p + 1]) > Len(input_data) THEN TRUE
    ELSE MalformedFrom(p + 1 + num_argument_bytes(input_data[p + 1]))

C17_Gd3FieldReconciled ==
    [][(pc = "encoded" /\ HeaderGd3Offset # 0) =>
          /\ pc' = "tagged"
          /\ U32At(codec'.output.data, 20) =
                 HeaderGd3Offset
                     - (Len(input_data) - (Len(codec'.output.data) + Len(extradata_block)))
          /\ U32At(codec'.output.data, 20) + 20
                 = Len(codec'.output.data) + Len(extradata_block)
                       - (Len(input_stream.data) - input_stream.pos)]_vars

\* The offset of the end marker that closes the raw command stream walked
\* from p by the Command Table; -1 when there is none.
RECURSIVE EndMarkerPos(_)
EndMarkerPos(p) ==
    IF p >= Len(input_data) THEN -1
    ELSE IF input_data[p + 1] = 102 THEN p
    ELSE IF input_data[p + 1] = 103 /\ p + 7 > Len(input_data) THEN -1
    ELSE EndMarkerPos(p + CommandLenIn(input_data, p))

\* The bytes that follow the end marker in the input
RawTrailer == SubSeq(input_data, EndMarkerPos(64) + 2, Len(input_data))

\* C18: in the final image the bytes after header, dictionary block and
\* compressed body are the bytes that followed the end marker in the input,
\* the field at offset 4 is the length of header + dictionary block +
\* compressed body minus 4, the header bytes outside the patched fields are
\* the input's and the dictionary block sits at the data-start offset.
C18_EofFieldAndLayout ==
    (pc = "assembled" /\ EndMarkerPos(64) >= 0) =>
        LET total == Len(FinalImage)
            body_end == total - Len(RawTrailer)
        IN  /\ body_end >= data_offset + Len(extradata_block) + 1
            /\ SubSeq(FinalImage, body_end + 1, total) = RawTrailer
            /\ U32At(FinalImage, 4) = body_end - 4
            /\ \A i \in (1..4) \cup (10..20) \cup (25..28) \cup (33..64) :
                   FinalImage[i] = input_data[i]
            /\ SubSeq(FinalImage, data_offset + 1, data_offset + Len(extradata_block))
                   = extradata_block
            /\ FinalImage[body_end] \in {102, 78}

\* C19: when the header loop offset is 0 the compression pass performs no
\* loop-boundary flush and bytes 0x1C..0x1F of the final image are the
\* input's, whatever the stream contains.
C19_LoopFieldUntouched ==
    HeaderLoopOffset = 0 =>
        /\ loop_flushes = 0
        /\ pc \in {"assembled", "done"} =>
               SubSeq(FinalImage, 29, 32) = SubSeq(input_data, 29, 32)

\* The assembled image does not fit the window left by the player
ImageTooLarge == Len(FinalImage) > MaxImageWindow - player_len

\* C20: when the assembled image is longer than 0xFFC0 minus the player's
\* length, the run does not end successfully, the output file is not created
\* and the image is not written.
C20_OversizeIsFatal ==
    ((pc \in {"assembled", "done"} \/ output_file.created) /\ ImageTooLarge) =>
        /\ pc # "done"
        /\ ~output_file.created
        /\ output_file.image = <<>>

RECURSIVE TermPos(_)
TermPos(p) ==
    IF p < 0 \/ p >= Len(input_data) THEN -1
    ELSE IF input_data[p + 1] = 0 THEN p
    ELSE TermPos(p + 2)

\* The offset in the input of the k-th string of the GD3 block (-1: none)
RECURSIVE StringStart(_)
StringStart(k) ==
    IF k = 1 THEN HeaderGd3Offset + 20 + 12
    ELSE IF TermPos(StringStart(k - 1)) < 0 THEN -1
    ELSE TermPos(StringStart(k - 1)) + 2

\* The low bytes of at most the first 32 characters of the k-th string
StringLow(k) ==
    LET n == (TermPos(StringStart(k)) - StringStart(k)) \div 2
    IN  [i \in 1..(IF n > 32 THEN 32 ELSE n) |-> input_data[StringStart(k) + 2 * i - 1]]

\* The first n strings of the GD3 block are closed inside the input
StringsClosed(n) ==
    /\ HeaderGd3Offset # 0
    /\ \A k \in 1..n : TermPos(StringStart(k)) >= 0 /\ TermPos(StringStart(k)) + 2 <= Len(input_data)

\* C22 as stated: the extraction reads six strings and the author is among
\* them, the other three of the six are discarded.
C22_Original ==
    (pc = "tagged" /\ StringsClosed(7)) =>
        /\ gd3_strings.song_title = StringLow(1)
        /\ gd3_strings.game_title = StringLow(3)
        /\ \E k \in {2, 4, 5, 6} : gd3_strings.artist = StringLow(k)

\* C22 amended: the extraction reads seven strings, each closed by a zero low
\* byte and one ignored byte; it keeps the 1st (title), the 3rd (originating
\* work) and the 7th (author) and discards the other four; a kept string is
\* the low bytes of at most its first 32 characters, and each read leaves the
\* cursor on the first byte of the next string.
C22_SevenStrings ==
    (pc = "tagged" /\ StringsClosed(7)) =>
        /\ gd3_strings = [song_title |-> StringLow(1), game_title |-> StringLow(3),
                          artist |-> StringLow(7)]
        /\ \A k \in 1..7 :
               LET r == read_gd3_string([data |-> input_data, pos |-> StringStart(k)], <<>>)
               IN  /\ ~r.panic
                   /\ r.bs.pos = StringStart(k + 1)
                   /\ r.str = StringLow(k)

\* C22 witness: a block of eleven strings with nonzero ignored bytes has been
\* read; the author is its 7th string and differs from the first six.
C22_Witness ==
    /\ pc = "tagged"
    /\ StringsClosed(8)
    /\ gd3_strings.artist = <<65, 117>>
    /\ gd3_strings.song_title = <<84, 105>>
    /\ \A k \in 1..6 : StringLow(k) # gd3_strings.artist
    /\ StringLow(8) # gd3_strings.artist

\* One data block, then the end marker
SingleDataBlock ==
    /\ pc \in {"encoded", "tagged", "assembled", "done"}
    /\ codec_used = "PSG_CODEC"
    /\ Len(input_data) > 71
    /\ input_data[65] = 103
    /\ input_data[64 + CommandLenIn(input_data, 64) + 1] = 102
    /\ Len(input_data) = 64 + CommandLenIn(input_data, 64) + 1

\* C23: under the dictionary codec a data block's bytes reach the compressed
\* body with their values and in order, and the block takes one batch slot:
\* for a stream of one data block and the end marker the body is one batch
\* with no flag set, the block, the end marker and six NOPs.
C23_DataBlockVerbatim ==
    SingleDataBlock =>
        LET n == CommandLenIn(input_data, 64)
        IN  SubSeq(codec.output.data, 65, Len(codec.output.data))
                = <<0>> \o RawCommands(n + 1) \o Repeat(NOP, 6)

\* Where the elimination pass's end marker stands in the reduced stream
ReducedEndMarkerPos == Len(input_stream.data) - Len(RawTrailer) - 1

\* The driver is about to read an opcode: the codec expects no argument and
\* the end marker has not been passed; after the pass the cursor stands just
\* behind that end marker.
C24_AtOpcode ==
    /\ pc = "encode" =>
           /\ codec.kind = "PSG_CODEC" => codec.remaning_argument_bytes = 0
           /\ input_stream.pos <= ReducedEndMarkerPos
    /\ pc = "encoded" => input_stream.pos = ReducedEndMarkerPos + 1
\* One iteration of the driver takes the opcode and the argument bytes of the
\* Command Table.
C24_DriverStep ==
    (pc = "encode" /\ pc' \in {"encode", "encoded"}) =>
        input_stream'.pos - input_stream.pos
            = CommandLenIn(input_stream.data, input_stream.pos)

\* C24: the elimination pass, the driver of the compression pass and the
\* codec agree on command boundaries: at each opcode the driver reads the
\* codec has no argument pending, the driver feeds the argument bytes the
\* Command Table assigns, and the compression pass stops at the end marker
\* the elimination pass stopped at.
C24_ParsersAgree == [](EndMarkerPos(64) >= 0 => C24_AtOpcode) /\ [][C24_DriverStep]_vars

\* p is the offset of an opcode when the commands of data are walked from q
RECURSIVE OpcodeAt(_, _, _)
OpcodeAt(data, q, p) ==
    IF q >= p \/ q >= Len(data) THEN q = p
    ELSE OpcodeAt(data, q + CommandLenIn(data, q), p)

\* A backward merge: a step of the elimination pass that takes a 0x8n and
\* does not lengthen the reduced stream.
C25_BackwardMergeStep ==
    LET p == input_stream.pos
        d == input_stream.data
        old == preprocessed_data.data
        new == preprocessed_data'.data
    IN  (/\ pc = "preprocess" /\ pc' = "preprocess"
         /\ p < Len(d) /\ d[p + 1] >= 128 /\ d[p + 1] <= 143
         /\ Len(new) = Len(old)) =>
            /\ Len(old) > data_offset
            /\ OpcodeAt(old, data_offset, Len(old) - 1)
            /\ old[Len(old)] >= 112 /\ old[Len(old)] <= 127
            /\ SubSeq(new, 1, Len(old) - 1) = SubSeq(old, 1, Len(old) - 1)

\* C25: a backward merge changes at most the last byte of the reduced stream,
\* and that byte is the opcode of a short wait 0x7m emitted before: not a
\* header byte, not an argument byte; the length and all other bytes stay.
C25_BackwardMergeOnlyOpcodes == [][C25_BackwardMergeStep]_vars

C26_FirstWriteStep ==
    LET p == input_stream.pos
        d == input_stream.data
    IN  (/\ pc = "preprocess" /\ p + 3 <= Len(d)
         /\ d[p + 1] = 82 /\ d[p + 2] = 39
         /\ Prev27Bits(64, p, -1) = -1) =>
            /\ pc' = "preprocess"
            /\ preprocessed_data'.data = preprocessed_data.data \o <<82, 39, d[p + 3]>>

\* C26: the first 0x52 0x27 write of a raw stream is copied to the reduced
\* stream with its three bytes whatever its value, 00 in the upper two bits
\* included.
C26_FirstModeWriteKept == [][C26_FirstWriteStep]_vars

\* An iteration of either loop takes at least one byte of its input stream
C27_ConsumingStep ==
    (pc \in {"preprocess", "encode"} /\ pc' # "panic") =>
        input_stream'.pos >= input_stream.pos + 1

\* C27: each iteration of the elimination loop and of the compression loop
\* takes at least one byte of its input stream, and each pass, once begun,
\* finishes on an end marker or aborts: neither loop runs forever.
C27_PassesTerminate ==
    /\ [][C27_ConsumingStep]_vars
    /\ (pc = "preprocess") ~> (pc \in {"preprocessed", "panic"})
    /\ (pc = "encode") ~> (pc \in {"encoded", "panic"})

\* C27 witness: the compression pass has finished after the elimination pass
\* copied two commands, one of them a data block.
C27_Witness ==
    /\ pc = "encoded"
    /\ Len(input_data) > 72
    /\ input_data[65] = 103
    /\ input_stream.pos = Len(input_stream.data)
    /\ input_stream.pos > 72

\* C28: after any sequence of byte stream calls (read, read_n, skip, reset,
\* write, write_n, replace_at, read_available, the string extraction) that
\* returns without a panic, the cursor lies within the buffer:
\* 0 <= position <= length.
C28_CursorWithinBuffer ==
    pc = "cursor" =>
        /\ 0 <= input_stream.pos
        /\ input_stream.pos <= BsLen(input_stream)

BitAt(v, i) == (v \div Pow2(i)) % 2
IsWriteStep == pc = "codec" /\ Len(calls') = Len(calls) + 1 /\ calls'[Len(calls')] # FLUSH
WrittenByte == calls'[Len(calls')]

\* An opcode takes the next slot: that slot's flag bit is 1 exactly for a PSG
\* write, whose opcode is not buffered; a full batch is emitted first.
C16_OpcodeStep ==
    (IsWriteStep /\ IsPsg /\ codec.remaning_argument_bytes = 0) =>
        LET full == codec.num_flags = 8
            slot == IF full THEN 0 ELSE codec.num_flags
            before == IF full THEN 0 ELSE codec.flags
            pending == IF full THEN <<>> ELSE codec.pending_data
        IN  /\ \A i \in 0..7 :
                  BitAt(codec'.flags, i) =
                      IF i = slot THEN (IF WrittenByte = 80 THEN 1 ELSE 0)
                      ELSE BitAt(before, i)
            /\ WrittenByte = 80 => codec'.pending_data = pending
            /\ (WrittenByte # 80 /\ WrittenByte # 97) =>
                   codec'.pending_data = Append(pending, WrittenByte)
            /\ ~full => codec'.output = codec.output

\* The argument of a PSG write is all the command adds to the payload, and
\* nothing reaches the output.
C16_ArgumentStep ==
    (IsWriteStep /\ IsPsg /\ codec.remaning_argument_bytes > 0
        /\ codec.current_command = 80) =>
        /\ codec'.pending_data = Append(codec.pending_data, WrittenByte)
        /\ codec'.flags = codec.flags
        /\ codec'.output = codec.output

\* Whatever is emitted is the batch as it stood: its flag byte, its payload,
\* and padding up to 8 slots.
C16_EmissionStep ==
    (pc = "codec" /\ IsPsg /\ codec'.output # codec.output) =>
        /\ codec.num_flags > 0
        /\ codec'.output.data = codec.output.data \o <<codec.flags>>
               \o codec.pending_data \o Repeat(78, 8 - codec.num_flags)

\* Only the slots taken so far have a flag bit.
C16_FlagsWithinSlots == IsPsg => codec.flags < Pow2(codec.num_flags)

\* C16: in every emitted batch, bit i of the flag byte is 1 exactly when the
\* batch's i-th command was a PSG write, which contributes its argument byte
\* only; a completed PSG write adds nothing to the output until a flush.
C16_FlagBits ==
    /\ []C16_FlagsWithinSlots
    /\ [][C16_OpcodeStep /\ C16_ArgumentStep /\ C16_EmissionStep]_vars

\* C16 witness: PSG 12, the opcode 34, PSG 34, flush: flag byte 0b101.
C16_Witness ==
    /\ pc = "codec" /\ IsPsg
    /\ calls = <<80, 18, 52, 80, 52, FLUSH>>
    /\ codec.output.data = <<5, 18, 52, 52, 78, 78, 78, 78, 78>>

(***************************************************************************)
(* Properties of the dictionary codec's state machine (WideSpec).          *)
(***************************************************************************)
\* The Command Table's argument counts
TableArgumentCount(c) ==
    IF c = 79 \/ c = 80 THEN 1
    ELSE IF c = 81 \/ c = 82 \/ c = 83 \/ c = 97 THEN 2
    ELSE IF c = 224 THEN 4
    ELSE 0

C15_ByteStep ==
    (pc = "codec" /\ IsPsg /\ Len(calls') = Len(calls) + 1 /\ calls'[Len(calls')] # FLUSH) =>
        LET c == calls'[Len(calls')] IN
        IF codec.remaning_argument_bytes = 0
        THEN /\ codec'.current_command = c
             /\ codec'.remaning_argument_bytes = TableArgumentCount(c)
             /\ codec'.num_flags = (IF codec.num_flags = 8 THEN 1 ELSE codec.num_flags + 1)
        ELSE /\ codec'.remaning_argument_bytes = codec.remaning_argument_bytes - 1
             /\ codec'.num_flags = codec.num_flags

C15_Ranges ==
    IsPsg => /\ codec.remaning_argument_bytes \in 0..4
             /\ codec.num_flags \in 0..8

\* C15: a byte written with no argument pending is an opcode, takes one batch
\* slot and sets the pending count to the Command Table's count; a byte
\* written while arguments are pending lowers the count by one and takes no
\* slot; the pending count stays within 0..4, the filled slots within 0..8.
C15_TwoStateMachine == []C15_Ranges /\ [][C15_ByteStep]_vars

\* C15 witness: a seek took the 8th slot and its four arguments, then a
\* stereo opcode took slot 0 of the next batch and awaits its argument.
C15_Witness ==
    /\ pc = "codec" /\ IsPsg
    /\ calls = <<224, 18, 18, 18, 18, 79>>
    /\ codec.remaning_argument_bytes = 1
    /\ codec.num_flags = 1
====
